---- MODULE Spec2Model ----
(***************************************************************************)
(* Verification model of the spark LoD build pipeline.                     *)
(*                                                                         *)
(*   SpecRad   : RadEncoder::encode writes a RAD file from a splat array;  *)
(*               the bytes (or a damaged copy of them) are streamed into a *)
(*               RadDecoder through push()/finish() in arbitrary pieces.   *)
(*   SpecBhatt : bhatt_lod::compute_lod_tree (merge loop, pruning,         *)
(*               re-indexing, permute, truncate) on a CsplatArray.         *)
(*   SpecBhattFair : SpecBhatt with the builder running to its return.     *)
(*   SpecChunk, SpecChunkSized : chunk_tree::chunk_tree on a tree.         *)
(*   SpecTraverse, SpecRetain, SpecCsplat, SpecQuant, SpecUnlod : the LoD  *)
(*               traversal and the array operations, each on its own.      *)
(*   SpecTool, SpecValidate : the build-lod command over its input files.  *)
(*   SpecResidency, SpecTraverseResident, SpecTraverseTwice : the worker   *)
(*               LoD tree under update_lod_trees and repeated traversal.   *)
(*   SpecPermute, SpecChildSetters : CsplatArray permute and child setters.*)
(*   SpecChunkFair : SpecChunk with the batch loop taking its turns.       *)
(*   SpecPacked : PackedSplatsData behind its write-back buffer.           *)
(*                                                                         *)
(* Bytes are naturals 0..255.  Floating-point columns are carried by their *)
(* encoded size only; the integer columns (child_count, child_start) are   *)
(* carried by value.                                                       *)
(***************************************************************************)
EXTENDS Integers, Sequences, FiniteSets, TLC

VARIABLES
    \* ---- RAD encoder / decoder -------------------------------------
    pc,        \* "start" before RadEncoder::encode ran, "stream" afterwards
    getter,    \* the splat array handed to RadEncoder (CsplatArray as SplatGetter)
    encoder,   \* RadEncoder configuration (max_sh and the six encoding choices)
    file,      \* the bytes RadEncoder::encode wrote, with the chunks it built
    wire,      \* the byte stream fed to the decoder, and what was done to it
    pushed,    \* number of bytes of wire.bytes handed to push() so far
    dec,       \* the RadDecoder (its receiver is dec.splats)
    res,       \* result of the latest push()/finish(): "none", "ok", "err"
    lastOp,    \* "none", "push" or "finish"
    failed,    \* poll() has returned an error to some push()/finish()
    nfinish,   \* number of finish() calls made
    straddled, \* some push() has left part of a unit waiting in the buffer
    \* ---- Bhatt-LoD builder ------------------------------------------
    bh,        \* state of compute_lod_tree (see BhInit)
    \* ---- chunk-tree layout ------------------------------------------
    ct,        \* state of chunk_tree (see CtInit)
    \* ---- runtime LoD traversal --------------------------------------
    tv,        \* state of new_traverse_lod_trees (see TvInit)
    \* ---- CsplatArray operations --------------------------------------
    ca,        \* a CsplatArray and the last operation applied to it (see CaInit)
    \* ---- RAD quantizers ----------------------------------------------
    qz,        \* a column under one of the RAD quantizers (see QzInit)
    \* ---- build-lod --unlod -------------------------------------------
    ul,        \* state of build-lod --unlod on one file (see UlInit)
    \* ---- build-lod command line --------------------------------------
    bl,        \* state of the build-lod tool over its argument list (see BlStart)
    \* ---- worker LoD tree residency ------------------------------------
    lt,        \* a LodTree of the worker state under update_lod_trees (see LtInit)
    \* ---- worker packed splats -----------------------------------------
    pk         \* a PackedSplatsData behind its write-back buffer (see PkInit)

vars == <<pc, getter, encoder, file, wire, pushed, dec, res, lastOp, failed, nfinish, straddled, bh, ct, tv, ca, qz, ul, bl, lt, pk>>

radVars == <<pc, getter, encoder, file, wire, pushed, dec, res, lastOp, failed, nfinish, straddled>>

\* what each part of the pipeline leaves alone
besidesRad == <<bh, ct, tv, ca, qz, ul, bl, lt, pk>>

besidesBh == <<radVars, ct, tv, ca, qz, ul, bl, lt, pk>>

besidesCt == <<radVars, bh, tv, ca, qz, ul, bl, lt, pk>>

besidesTv == <<radVars, bh, ct, ca, qz, ul, bl, lt, pk>>

besidesCa == <<radVars, bh, ct, tv, qz, ul, bl, lt, pk>>

besidesQz == <<radVars, bh, ct, tv, ca, ul, bl, lt, pk>>

besidesUl == <<radVars, bh, ct, tv, ca, qz, bl, lt, pk>>

besidesBl == <<radVars, bh, ct, tv, ca, qz, ul, lt, pk>>

besidesLt == <<radVars, bh, ct, tv, ca, qz, ul, bl, pk>>

besidesPk == <<radVars, bh, ct, tv, ca, qz, ul, bl, lt>>

(***************************************************************************)
(* Bounds                                                                  *)
(***************************************************************************)
\* largest splat array handed to the encoder
MaxSplats == 3
\* splats per chunk (rad.rs:470 has 65536; scaled so that several chunks fit)
CHUNK_SIZE == 2
\* largest piece handed to one push() (besides "everything that is left")
MaxPush == 3
\* finish() calls per run
MaxFinish == 1
\* bytes appended after the last chunk in the "trailing" streams
TrailingBytes == 3

(***************************************************************************)
(* Small helpers                                                           *)
(***************************************************************************)
Min(a, b) == IF a < b THEN a ELSE b

Some(x) == <<x>>

None == <<>>

unwrap_or(o, d) == IF o = <<>> THEN d ELSE o[1]

Zeros(n) == [i \in 1..n |-> 0]

div_ceil(a, b) == (a + b - 1) \div b

\* Vec::drain(..n)
drain(buf, n) == SubSeq(buf, n + 1, Len(buf))

RECURSIVE Concat(_)
Concat(ss) == IF ss = <<>> THEN <<>> ELSE Head(ss) \o Concat(Tail(ss))

RECURSIVE to_le_bytes(_, _)
to_le_bytes(n, w) ==
    IF w = 0 THEN <<>> ELSE <<n % 256>> \o to_le_bytes(n \div 256, w - 1)

RECURSIVE from_le_bytes(_)
from_le_bytes(b) ==
    IF b = <<>> THEN 0 ELSE b[1] + 256 * from_le_bytes(Tail(b))

RAD_MAGIC == 809779538

RAD_CHUNK_MAGIC == 1128546642

roundup8_skew(size) == ((size + 8) \div 8) * 8

roundup8(size) == ((size + 7) \div 8) * 8

pad8_full(size) == 8 - (size % 8)

pad8(size) == (8 - (size % 8)) % 8

(***************************************************************************)
(* Names of the chunk properties and of their encodings                    *)
(***************************************************************************)
PropertyNames ==
    <<"center", "alpha", "rgb", "scales", "orientation",
      "sh1", "sh2", "sh3", "child_count", "child_start">>

EncodingNames ==
    <<"f32", "f16", "f32_lebytes", "f16_lebytes", "r8", "r8_delta", "s8",
      "s8_delta", "ln_0r8", "ln_f16", "oct88r8", "u16", "u32">>

CodeOf(names, n) == CHOOSE i \in 1..Len(names) : names[i] = n

\* bytes one encoded component takes
ElementBytes(encoding) ==
    CASE encoding \in {"f32", "f32_lebytes", "u32"} -> 4
      [] encoding \in {"f16", "f16_lebytes", "ln_f16", "u16"} -> 2
      [] OTHER -> 1

\* components per splat of a property
Dims(property) ==
    CASE property \in {"center", "rgb", "scales"} -> 3
      [] property = "orientation" -> 3
      [] property = "sh1" -> 9
      [] property = "sh2" -> 15
      [] property = "sh3" -> 21
      [] OTHER -> 1

(***************************************************************************)
(* serde_json: RadMeta / RadChunkMeta to bytes and back.  The JSON text is *)
(* modelled by a field-by-field byte layout whose length depends on the    *)
(* number of chunks / properties, and from_slice rejects what to_vec       *)
(* cannot have written.                                                    *)
(***************************************************************************)
JsonNum(n) == to_le_bytes(n, 2)

JsonOpt(o) == IF o = <<>> THEN <<255>> ELSE <<o[1]>>

JsonFlag(b) == IF b THEN <<1>> ELSE <<0>>

to_vec_property(p) ==
    <<CodeOf(PropertyNames, p.property), CodeOf(EncodingNames, p.encoding),
      (IF p.compression THEN 1 ELSE 0) + (IF p.minmax THEN 2 ELSE 0)>>
    \o JsonNum(p.offset) \o JsonNum(p.bytes)

to_vec_chunk_meta(m) ==
    <<m.version>> \o JsonNum(m.base) \o JsonNum(m.count)
    \o JsonNum(m.payload_bytes) \o JsonOpt(m.max_sh) \o JsonFlag(m.lod_tree)
    \o JsonFlag(m.splat_encoding)
    \o <<Len(m.properties)>>
    \o Concat([i \in 1..Len(m.properties) |-> to_vec_property(m.properties[i])])

ChunkMetaFixed == 11

from_slice_property(b) ==
    [property |-> PropertyNames[b[1]], encoding |-> EncodingNames[b[2]],
     compression |-> (b[3] % 2 = 1), minmax |-> ((b[3] \div 2) % 2 = 1),
     offset |-> from_le_bytes(SubSeq(b, 4, 5)),
     bytes |-> from_le_bytes(SubSeq(b, 6, 7))]

from_slice_chunk_meta(b) ==
    LET n == b[ChunkMetaFixed]
        wellFormed ==
            /\ Len(b) >= ChunkMetaFixed
            /\ Len(b) = ChunkMetaFixed + 7 * n
            /\ \A i \in 1..n :
                  /\ b[ChunkMetaFixed + 7 * (i - 1) + 1] \in 1..Len(PropertyNames)
                  /\ b[ChunkMetaFixed + 7 * (i - 1) + 2] \in 1..Len(EncodingNames)
    IN  IF ~wellFormed THEN [ok |-> FALSE]
        ELSE [ok |-> TRUE,
              v |-> [version |-> b[1],
                     base |-> from_le_bytes(SubSeq(b, 2, 3)),
                     count |-> from_le_bytes(SubSeq(b, 4, 5)),
                     payload_bytes |-> from_le_bytes(SubSeq(b, 6, 7)),
                     max_sh |-> IF b[8] = 255 THEN None ELSE Some(b[8]),
                     lod_tree |-> (b[9] = 1),
                     splat_encoding |-> (b[10] = 1),
                     properties |->
                        [i \in 1..n |-> from_slice_property(
                            SubSeq(b, ChunkMetaFixed + 7 * (i - 1) + 1,
                                      ChunkMetaFixed + 7 * i))]]]

\* serde_json::to_vec_pretty(&meta) followed by the '\n' the encoder appends
to_vec_meta(m) ==
    <<m.version, m.ty>> \o JsonNum(m.count) \o JsonOpt(m.max_sh)
    \o JsonFlag(m.lod_tree) \o JsonOpt(m.chunk_size)
    \o JsonNum(m.all_chunk_bytes) \o JsonFlag(m.splat_encoding)
    \o <<Len(m.chunks)>>
    \o Concat([i \in 1..Len(m.chunks) |->
                  JsonNum(m.chunks[i].offset) \o JsonNum(m.chunks[i].bytes)])
    \o <<10>>

MetaFixed == 11

from_slice_meta(b) ==
    LET n == b[MetaFixed]
        wellFormed ==
            /\ Len(b) >= MetaFixed + 1
            /\ Len(b) = MetaFixed + 4 * n + 1
            /\ b[2] = 1                       \* "type": "gsplat"
            /\ b[Len(b)] = 10
    IN  IF ~wellFormed THEN [ok |-> FALSE]
        ELSE [ok |-> TRUE,
              v |-> [version |-> b[1], ty |-> b[2],
                     count |-> from_le_bytes(SubSeq(b, 3, 4)),
                     max_sh |-> IF b[5] = 255 THEN None ELSE Some(b[5]),
                     lod_tree |-> (b[6] = 1),
                     chunk_size |-> IF b[7] = 255 THEN None ELSE Some(b[7]),
                     all_chunk_bytes |-> from_le_bytes(SubSeq(b, 8, 9)),
                     splat_encoding |-> (b[10] = 1),
                     chunks |->
                        [i \in 1..n |->
                            [offset |-> from_le_bytes(
                                SubSeq(b, MetaFixed + 4 * (i - 1) + 1, MetaFixed + 4 * (i - 1) + 2)),
                             bytes |-> from_le_bytes(
                                SubSeq(b, MetaFixed + 4 * (i - 1) + 3, MetaFixed + 4 * i))]]]]

(***************************************************************************)
(* miniz_oxide: raw DEFLATE.  A compressed block is a one-byte block       *)
(* header followed by the data; inflating anything else fails.             *)
(***************************************************************************)
DeflateHeader == 120

compress_to_vec(data) == <<DeflateHeader>> \o data

decompress_to_vec(data) ==
    IF Len(data) >= 1 /\ data[1] = DeflateHeader
    THEN [ok |-> TRUE, v |-> Tail(data)]
    ELSE [ok |-> FALSE]

(***************************************************************************)
(* CsplatArray as SplatGetter (csplat.rs)                                  *)
(***************************************************************************)
num_splats(g) == g.num_splats

has_lod_tree(g) == g.children # <<>>

get_child_count(g, base, count) ==
    [i \in 1..count |-> Len(g.children[base + i]) % 65536]

get_child_start(g, base, count) ==
    [i \in 1..count |->
        IF g.children[base + i] = <<>> THEN 0 ELSE g.children[base + i][1]]

(***************************************************************************)
(* Quantizers.  A float column is carried by the size of its encoding;     *)
(* u16 / u32 columns are encoded value by value.                           *)
(***************************************************************************)
EncodedColumn(encoding, dims, count) ==
    Zeros(ElementBytes(encoding) * dims * count)

\* the column dimension by dimension: for d in 0..dims, index = d, d + dims, ..
dim_major(data, dims, count) ==
    [k \in 1..(dims * count) |-> data[((k - 1) % count) * dims + ((k - 1) \div count) + 1]]

encode_u16(data, dims, count) ==
    Concat([k \in 1..(dims * count) |-> to_le_bytes(dim_major(data, dims, count)[k], 2)])

decode_u16(data, dims, count) ==
    [i \in 1..count |-> from_le_bytes(SubSeq(data, (i - 1) * 2 + 1, (i - 1) * 2 + 2))]

encode_usize_as_u32(data, dims, count) ==
    Concat([k \in 1..(dims * count) |-> to_le_bytes(dim_major(data, dims, count)[k], 4)])

decode_u32_as_usize(data, dims, count) ==
    [i \in 1..count |-> from_le_bytes(SubSeq(data, (i - 1) * 4 + 1, (i - 1) * 4 + 4))]

(***************************************************************************)
(* RadEncoder (rad.rs)                                                     *)
(***************************************************************************)
Property(name, enc, minmax) ==
    [property |-> name, encoding |-> enc, compression |-> TRUE,
     minmax |-> minmax, offset |-> 0, bytes |-> 0]

PropData(meta, raw) == [meta |-> meta, data |-> compress_to_vec(raw)]

encode_chunk_center(e, base, count) ==
    LET enc == CASE e.center_encoding = "F32" -> "f32"
                 [] e.center_encoding = "F16" -> "f16"
                 [] e.center_encoding \in {"Auto", "F32LeBytes"} -> "f32_lebytes"
                 [] e.center_encoding = "F16LeBytes" -> "f16_lebytes"
    IN  PropData(Property("center", enc, FALSE), EncodedColumn(enc, 3, count))

encode_chunk_alpha(e, base, count) ==
    LET enc == CASE e.alpha_encoding = "F32" -> "f32"
                 [] e.alpha_encoding \in {"Auto", "F16"} -> "f16"
                 [] e.alpha_encoding = "R8" -> "r8"
    IN  PropData(Property("alpha", enc, enc = "r8"), EncodedColumn(enc, 1, count))

encode_chunk_rgb(e, base, count) ==
    LET enc == CASE e.rgb_encoding = "F32" -> "f32"
                 [] e.rgb_encoding = "F16" -> "f16"
                 [] e.rgb_encoding = "R8" -> "r8"
                 [] e.rgb_encoding \in {"Auto", "R8Delta"} -> "r8_delta"
    IN  PropData(Property("rgb", enc, enc \in {"r8", "r8_delta"}),
                 EncodedColumn(enc, 3, count))

encode_chunk_scales(e, base, count) ==
    LET enc == CASE e.scales_encoding = "F32" -> "f32"
                 [] e.scales_encoding \in {"Auto", "Ln0R8"} -> "ln_0r8"
                 [] e.scales_encoding = "LnF16" -> "ln_f16"
    IN  PropData(Property("scales", enc, enc = "ln_0r8"),
                 EncodedColumn(enc, 3, count))

encode_chunk_orientation(e, base, count) ==
    LET enc == CASE e.orientation_encoding \in {"Oct88R8", "Auto"} -> "oct88r8"
                 [] e.orientation_encoding = "F32" -> "f32"
                 [] e.orientation_encoding = "F16" -> "f16"
    IN  PropData(Property("orientation", enc, FALSE), EncodedColumn(enc, 3, count))

encode_chunk_sh(e, base, count, property) ==
    LET enc == CASE e.sh_encoding = "F32" -> "f32"
                 [] e.sh_encoding = "F16" -> "f16"
                 [] e.sh_encoding \in {"Auto", "S8"} -> "s8"
                 [] e.sh_encoding = "S8Delta" -> "s8_delta"
    IN  PropData(Property(property, enc, enc \in {"s8", "s8_delta"}),
                 EncodedColumn(enc, Dims(property), count))

encode_chunk_child_count(g, base, count) ==
    PropData(Property("child_count", "u16", FALSE),
             encode_u16(get_child_count(g, base, count), 1, count))

encode_chunk_child_start(g, base, count) ==
    PropData(Property("child_start", "u32", FALSE),
             encode_usize_as_u32(get_child_start(g, base, count), 1, count))

\* offset / bytes of every property, assigned after compression
RECURSIVE AssignOffsets(_, _)
AssignOffsets_unadvanced(props, offset) ==
    [i \in 1..Len(props) |->
        [props[i] EXCEPT !.meta.offset = offset,
                         !.meta.bytes = Len(props[i].data)]]

AssignOffsets(props, offset) ==
    IF props = <<>> THEN <<>>
    ELSE <<[Head(props) EXCEPT !.meta.offset = offset,
                               !.meta.bytes = Len(Head(props).data)]>>
         \o AssignOffsets(Tail(props), offset + roundup8(Len(Head(props).data)))

RECURSIVE PayloadBytes(_)
PayloadBytes(props) ==
    IF props = <<>> THEN 0
    ELSE roundup8(Len(Head(props).data)) + PayloadBytes(Tail(props))

\* magic, meta length, meta, padding
MetaFrame(magic, meta_bytes) ==
    to_le_bytes(magic, 4) \o to_le_bytes(Len(meta_bytes), 4)
    \o meta_bytes \o Zeros(pad8(Len(meta_bytes)))

\* chunk magic, meta length, meta, padding, payload length, padded properties
ChunkBytes(meta, datas) ==
    MetaFrame(RAD_CHUNK_MAGIC, to_vec_chunk_meta(meta))
    \o to_le_bytes(meta.payload_bytes, 8)
    \o Concat([i \in 1..Len(datas) |-> datas[i] \o Zeros(pad8(Len(datas[i])))])

EncoderMaxSh(g, e) == Min(g.max_sh_degree, e.max_sh)

ChunkProps(g, e, base, count) ==
    LET max_sh == EncoderMaxSh(g, e)
    IN  <<encode_chunk_center(e, base, count),
          encode_chunk_alpha(e, base, count),
          encode_chunk_rgb(e, base, count),
          encode_chunk_scales(e, base, count),
          encode_chunk_orientation(e, base, count)>>
        \o (IF max_sh >= 1 THEN <<encode_chunk_sh(e, base, count, "sh1")>> ELSE <<>>)
        \o (IF max_sh >= 2 THEN <<encode_chunk_sh(e, base, count, "sh2")>> ELSE <<>>)
        \o (IF max_sh >= 3 THEN <<encode_chunk_sh(e, base, count, "sh3")>> ELSE <<>>)
        \o (IF has_lod_tree(g)
            THEN <<encode_chunk_child_count(g, base, count),
                   encode_chunk_child_start(g, base, count)>>
            ELSE <<>>)

ChunkMetaOf(g, e, base, count, props) ==
    [version |-> 1, base |-> base, count |-> count,
     payload_bytes |-> PayloadBytes(props),
     max_sh |-> Some(EncoderMaxSh(g, e)),
     lod_tree |-> has_lod_tree(g),
     splat_encoding |-> (e.encoding \/ g.encoding),
     properties |-> [i \in 1..Len(props) |-> props[i].meta]]

PropDatas(props) == [i \in 1..Len(props) |-> props[i].data]

\* the chunk written from the compressed properties, offsets assigned
ChunkOf(g, e, base, count, props) ==
    ChunkBytes(ChunkMetaOf(g, e, base, count, props), PropDatas(props))

encode_chunk(g, e, base, count) ==
    ChunkOf(g, e, base, count, AssignOffsets(ChunkProps(g, e, base, count), 0))

RECURSIVE ChunkRanges(_, _)
ChunkRanges(chunks, offset) ==
    IF chunks = <<>> THEN <<>>
    ELSE <<[offset |-> offset, bytes |-> Len(Head(chunks))]>>
         \o ChunkRanges(Tail(chunks), offset + Len(Head(chunks)))

HeaderBytes(meta) == MetaFrame(RAD_MAGIC, to_vec_meta(meta))

EncodedChunks(g, e) ==
    LET num_chunks == div_ceil(num_splats(g), CHUNK_SIZE)
    IN  [i \in 1..num_chunks |->
            LET base == (i - 1) * CHUNK_SIZE
                count == Min(num_splats(g) - base, CHUNK_SIZE)
            IN  encode_chunk(g, e, base, count)]

RadMetaOf(g, e, chunks) ==
    [version |-> 1, ty |-> 1, count |-> num_splats(g),
     max_sh |-> Some(EncoderMaxSh(g, e)),
     lod_tree |-> has_lod_tree(g),
     chunk_size |-> Some(CHUNK_SIZE),
     all_chunk_bytes |-> Len(Concat(chunks)),
     chunks |-> ChunkRanges(chunks, 0),
     splat_encoding |-> (e.encoding \/ g.encoding)]

\* what RadEncoder::encode writes; the chunks and the meta are kept beside
\* the bytes for reference
FileOf(meta, chunks) ==
    [bytes |-> HeaderBytes(meta) \o Concat(chunks), chunks |-> chunks, meta |-> meta]

EncodedFile(g, e, chunks) == FileOf(RadMetaOf(g, e, chunks), chunks)

encode(g, e) == EncodedFile(g, e, EncodedChunks(g, e))

(***************************************************************************)
(* SplatReceiver: the decoder's receiver, recorded call by call            *)
(***************************************************************************)
NewReceiver == [calls |-> <<>>]

Call(splats, op, base, count, data) ==
    [splats EXCEPT !.calls =
        Append(@, [op |-> op, base |-> base, count |-> count, data |-> data])]

init_splats(splats, n, max_sh_degree, lod_tree) ==
    Call(splats, "init_splats", 0, n, <<max_sh_degree, IF lod_tree THEN 1 ELSE 0>>)

set_encoding(splats) == Call(splats, "set_encoding", 0, 0, <<>>)

(***************************************************************************)
(* RadDecoder (rad.rs)                                                     *)
(***************************************************************************)
NewDecoder ==
    [splats |-> NewReceiver, offset |-> 0, buffer |-> <<>>, done |-> FALSE,
     meta |-> None, chunks_start |-> 0, chunk_index |-> 0, chunk_count |-> 0,
     chunk_size |-> 0, chunk_meta |-> None, payload_start |-> 0,
     chunk_end |-> 0, prop_index |-> 0, base |-> 0, count |-> 0]

\* result of a poll_* step: r is "true", "false" or "err" (for poll, push and
\* finish: "ok" or "err")
Ret(d, r) == [d |-> d, r |-> r]

skip_remaining(d) ==
    [d EXCEPT !.offset = @ + Len(d.buffer), !.buffer = <<>>]

skip_to_chunk_end(d) ==
    IF d.offset >= d.chunk_end THEN Ret(d, "true")
    ELSE LET remaining == d.chunk_end - d.offset
             available == Min(remaining, Len(d.buffer))
             d2 == [d EXCEPT !.buffer = drain(@, available),
                             !.offset = @ + available]
         IN  Ret(d2, IF d2.offset >= d2.chunk_end THEN "true" ELSE "false")

\* the encodings poll_chunk_props accepts for a property
SupportedEncodings(property) ==
    CASE property = "center" -> {"f32", "f16", "f32_lebytes", "f16_lebytes"}
      [] property = "alpha" -> {"f32", "f16", "r8"}
      [] property = "rgb" -> {"f32", "f16", "r8", "r8_delta"}
      [] property = "scales" -> {"f32", "ln_f16", "ln_0r8"}
      [] property = "orientation" -> {"oct88r8", "f32", "f16"}
      [] property \in {"sh1", "sh2", "sh3"} ->
            {"f32", "f16", "r8", "r8_delta", "s8", "s8_delta"}
      [] property = "child_count" -> {"u16"}
      [] property = "child_start" -> {"u32"}

NeedsMinMax(encoding) ==
    encoding \in {"r8", "r8_delta", "s8", "s8_delta", "ln_0r8"}

\* the match on prop.property / prop.encoding: the decoded column, or an error
decode_property(prop, data, count) ==
    IF prop.encoding \notin SupportedEncodings(prop.property) THEN [ok |-> FALSE]
    ELSE IF NeedsMinMax(prop.encoding) /\ ~prop.minmax THEN [ok |-> FALSE]
    ELSE IF prop.property = "child_count"
         THEN [ok |-> TRUE, v |-> decode_u16(data, 1, count)]
    ELSE IF prop.property = "child_start"
         THEN [ok |-> TRUE, v |-> decode_u32_as_usize(data, 1, count)]
    ELSE [ok |-> TRUE, v |-> <<>>]

offset_mismatch_never(d, prop) == FALSE

\* the check of the declared offset against the running cursor
offset_mismatch(d, prop) == d.payload_start + prop.offset # d.offset

RECURSIVE poll_chunk_props(_)
poll_chunk_props(d) ==
    LET props == d.chunk_meta[1].properties
    IN  IF d.prop_index >= Len(props) THEN Ret(d, "true")
        ELSE
        LET prop == props[d.prop_index + 1]
        IN  IF offset_mismatch(d, prop) THEN Ret(d, "err")
            ELSE IF Len(d.buffer) < roundup8(prop.bytes) THEN Ret(d, "false")
            ELSE
            LET data == SubSeq(d.buffer, 1, prop.bytes)
                inflated == IF prop.compression THEN decompress_to_vec(data)
                            ELSE [ok |-> TRUE, v |-> data]
            IN  IF ~inflated.ok THEN Ret(d, "err")
                ELSE
                LET column == decode_property(prop, inflated.v, d.count)
                IN  IF ~column.ok THEN Ret(d, "err")
                    ELSE poll_chunk_props(
                        [d EXCEPT
                            !.splats = Call(@, prop.property, d.base, d.count, column.v),
                            !.buffer = drain(@, roundup8(prop.bytes)),
                            !.offset = @ + roundup8(prop.bytes),
                            !.prop_index = @ + 1])

parse_chunk_meta_keep_base(d, chunk_meta, payload_start, chunk_end) ==
    LET d1 == [d EXCEPT !.payload_start = payload_start, !.chunk_end = chunk_end]
    IN  IF chunk_meta.version # 1 THEN Ret(d1, "err")
        ELSE
        LET d2 == [d1 EXCEPT !.base = chunk_meta.base, !.count = chunk_meta.count]
            d3 == IF d2.meta = None
                  THEN [d2 EXCEPT
                          !.splats = init_splats(@, d2.count,
                                                 unwrap_or(chunk_meta.max_sh, 0),
                                                 chunk_meta.lod_tree)]
                  ELSE d2
        IN  Ret([d3 EXCEPT !.prop_index = 0, !.chunk_meta = Some(chunk_meta)], "true")

parse_chunk_meta(d, chunk_meta, payload_start, chunk_end) ==
    LET d1 == [d EXCEPT !.payload_start = payload_start, !.chunk_end = chunk_end]
    IN  IF chunk_meta.version # 1 THEN Ret(d1, "err")
        ELSE
        LET d2 == [d1 EXCEPT !.base = chunk_meta.base, !.count = chunk_meta.count]
            d3 == IF d2.meta = None
                  THEN [d2 EXCEPT
                          !.base = 0,
                          !.splats = init_splats(@, d2.count,
                                                 unwrap_or(chunk_meta.max_sh, 0),
                                                 chunk_meta.lod_tree)]
                  ELSE d2
        IN  Ret([d3 EXCEPT !.prop_index = 0, !.chunk_meta = Some(chunk_meta)], "true")

poll_chunk_header(d) ==
    IF Len(d.buffer) < 4 THEN Ret(d, "false")
    ELSE IF from_le_bytes(SubSeq(d.buffer, 1, 4)) # RAD_CHUNK_MAGIC THEN Ret(d, "err")
    ELSE IF Len(d.buffer) < 8 THEN Ret(d, "false")
    ELSE
    LET length == from_le_bytes(SubSeq(d.buffer, 5, 8))
        meta_end == 8 + roundup8(length)
    IN  IF Len(d.buffer) < meta_end + 8 THEN Ret(d, "false")
        ELSE
        LET meta == from_slice_chunk_meta(SubSeq(d.buffer, 9, 8 + length))
        IN  IF ~meta.ok THEN Ret(d, "err")
            ELSE
            LET payload_bytes == from_le_bytes(SubSeq(d.buffer, meta_end + 1, meta_end + 8))
                d1 == [d EXCEPT !.buffer = drain(@, meta_end + 8),
                                !.offset = @ + meta_end + 8]
            IN  parse_chunk_meta(d1, meta.v, d1.offset, d1.offset + payload_bytes)

parse_meta(d, meta) ==
    IF meta.version # 1 THEN Ret(d, "err")
    ELSE IF meta.ty # 1 THEN Ret(d, "err")
    ELSE
    LET n == meta.count
        max_sh_degree == unwrap_or(meta.max_sh, 0)
        lod_tree == meta.lod_tree
        d1 == [d EXCEPT !.chunk_size = unwrap_or(meta.chunk_size, n),
                        !.chunk_count = Len(meta.chunks)]
    IN  IF d1.chunk_count # div_ceil(n, d1.chunk_size) THEN Ret(d1, "err")
        ELSE
        LET s1 == init_splats(d1.splats, n, max_sh_degree, lod_tree)
            s2 == IF meta.splat_encoding THEN set_encoding(s1) ELSE s1
            s3 == IF lod_tree THEN set_encoding(s2) ELSE s2
        IN  Ret([d1 EXCEPT !.splats = s3, !.meta = Some(meta)], "true")

poll_header(d) ==
    IF Len(d.buffer) < 4 THEN Ret(d, "false")
    ELSE
    LET magic == from_le_bytes(SubSeq(d.buffer, 1, 4))
    IN  IF magic = RAD_CHUNK_MAGIC THEN poll_chunk_header(d)
        ELSE IF magic # RAD_MAGIC THEN Ret(d, "err")
        ELSE IF Len(d.buffer) < 8 THEN Ret(d, "false")
        ELSE
        LET length == from_le_bytes(SubSeq(d.buffer, 5, 8))
            meta_end == 8 + roundup8(length)
        IN  IF Len(d.buffer) < meta_end THEN Ret(d, "false")
            ELSE
            LET meta == from_slice_meta(SubSeq(d.buffer, 9, 8 + length))
            IN  IF ~meta.ok THEN Ret(d, "err")
                ELSE
                LET d1 == [d EXCEPT !.buffer = drain(@, meta_end),
                                    !.offset = @ + meta_end,
                                    !.chunks_start = d.offset + meta_end]
                IN  parse_meta(d1, meta.v)

\* `if !self.poll_x()? { return Ok(()) }`: what poll returns when a step did
\* not return Ok(true)
Stopped(x) == Ret(x.d, IF x.r = "err" THEN "err" ELSE "ok")

\* the while loop of poll over the chunks of a RAD file; the three helpers
\* are the rest of the loop body after poll_chunk_header, poll_chunk_props
\* and skip_to_chunk_end
RECURSIVE poll_chunks(_)
poll_chunks_next(s) ==
    IF s.r # "true" THEN Stopped(s)
    ELSE poll_chunks([s.d EXCEPT !.chunk_meta = None, !.chunk_index = @ + 1])

poll_chunks_skip(p) ==
    IF p.r # "true" THEN Stopped(p) ELSE poll_chunks_next(skip_to_chunk_end(p.d))

poll_chunks_props(h) ==
    IF h.r # "true" THEN Stopped(h) ELSE poll_chunks_skip(poll_chunk_props(h.d))

poll_chunks(d) ==
    IF d.chunk_index >= d.chunk_count
    THEN Ret(skip_remaining([d EXCEPT !.done = TRUE]), "ok")
    ELSE poll_chunks_props(IF d.chunk_meta = None THEN poll_chunk_header(d)
                           ELSE Ret(d, "true"))

\* the single-chunk branch of poll, after poll_chunk_props and after
\* skip_to_chunk_end
poll_single_done(s) ==
    IF s.r # "true" THEN Stopped(s)
    ELSE Ret(skip_remaining([s.d EXCEPT !.done = TRUE]), "ok")

poll_single(p) ==
    IF p.r # "true" THEN Stopped(p) ELSE poll_single_done(skip_to_chunk_end(p.d))

\* poll after the header step
poll_started(h) ==
    IF h.r # "true" THEN Stopped(h)
    ELSE IF h.d.meta # None THEN poll_chunks(h.d)
    ELSE poll_single(poll_chunk_props(h.d))

poll(d) ==
    IF d.done THEN Ret(skip_remaining(d), "ok")
    ELSE poll_started(IF d.meta = None /\ d.chunk_meta = None THEN poll_header(d)
                      ELSE Ret(d, "true"))

push_replace(d, bytes) == poll([d EXCEPT !.buffer = bytes])

push(d, bytes) == poll([d EXCEPT !.buffer = @ \o bytes])

\* finish after its poll
finish_polled(p) ==
    IF p.r = "err" THEN p
    ELSE IF ~p.d.done THEN Ret(p.d, "err")
    ELSE Ret([p.d EXCEPT !.splats = Call(@, "finish", 0, 0, <<>>)], "ok")

finish(d) == finish_polled(poll(d))

(***************************************************************************)
(* Inputs: splat arrays, encoder configurations, and the streams handed    *)
(* to the decoder (the encoder's output, one of its chunks on its own, or  *)
(* a copy damaged in one place)                                            *)
(***************************************************************************)
RECURSIVE SumTo(_, _)
SumTo(f, i) == IF i = 0 THEN 0 ELSE f[i] + SumTo(f, i - 1)

\* child lists as chunk_tree leaves them: node i (0-based) owns the next
\* c[i] indices after those of the nodes before it, all greater than i
LaidOutTrees(n) ==
    IF n = 0 THEN {}
    ELSE { [i \in 1..n |-> [k \in 1..c[i] |-> SumTo(c, i - 1) + k]] :
             c \in { c \in [1..n -> 0..(n - 1)] :
                        /\ SumTo(c, n) = n - 1
                        /\ \A i \in 1..(n - 1) : SumTo(c, i) >= i } }

EncoderAuto ==
    [max_sh |-> 3, encoding |-> FALSE, center_encoding |-> "Auto",
     alpha_encoding |-> "Auto", rgb_encoding |-> "Auto",
     scales_encoding |-> "Auto", orientation_encoding |-> "Auto",
     sh_encoding |-> "Auto"]

EncoderAlt ==
    [max_sh |-> 1, encoding |-> TRUE, center_encoding |-> "F16LeBytes",
     alpha_encoding |-> "R8", rgb_encoding |-> "F16",
     scales_encoding |-> "LnF16", orientation_encoding |-> "F16",
     sh_encoding |-> "S8Delta"]

Getter(n, sh, children, enc) ==
    [num_splats |-> n, max_sh_degree |-> sh, children |-> children, encoding |-> enc]

\* (splat array, encoder) pairs: every size and every tree shape without SH,
\* the SH degrees 1..3 on a one-splat array with every encoding set by name,
\* and SH degree 3 on the largest array with the Auto encodings
Inputs ==
    UNION { { <<Getter(n, 0, ch, FALSE), EncoderAuto>> :
                  ch \in {<<>>} \cup LaidOutTrees(n) } : n \in 0..MaxSplats }
    \cup
    { <<Getter(1, sh, <<>>, TRUE), EncoderAlt>> : sh \in 1..3 }
    \cup
    { <<Getter(MaxSplats, 3, <<>>, FALSE), EncoderAuto>> }

NumChunks(g) == (g.num_splats + CHUNK_SIZE - 1) \div CHUNK_SIZE

ChunkBase(k) == (k - 1) * CHUNK_SIZE

ChunkCount(g, k) == Min(g.num_splats - ChunkBase(k), CHUNK_SIZE)

NoFault == [kind |-> "none", chunk |-> 0, prop |-> 0]

Fault(kind, k, j) == [kind |-> kind, chunk |-> k, prop |-> j]

NumProps(g, e) == Len(ChunkProps(g, e, 0, 0))

Faults(g, e) ==
    { Fault(kind, 0, 0) : kind \in {"magic", "meta_json", "file_version", "chunk_count"} }
    \cup { Fault(kind, k, 0) : kind \in {"chunk_magic", "chunk_version"},
                              k \in 1..NumChunks(g) }
    \cup { Fault("chunk_json", 1, 0) }
    \cup { Fault("offset", k, j) : k \in 1..NumChunks(g), j \in {1, NumProps(g, e)} }
    \cup { Fault(kind, NumChunks(g), NumProps(g, e)) : kind \in {"deflate", "encoding"} }

\* ---- a copy of the encoder's output damaged in one place -----------------
DamagedChunkMeta(meta, fault) ==
    CASE fault.kind = "chunk_version" -> [meta EXCEPT !.version = 2]
      [] fault.kind = "offset" ->
            [meta EXCEPT !.properties[fault.prop].offset = @ + 8]
      [] fault.kind = "encoding" ->
            [meta EXCEPT !.properties[fault.prop].encoding =
                            IF @ = "u32" THEN "f32" ELSE "u32"]
      [] OTHER -> meta

DamagedDatas(datas, fault) ==
    [i \in 1..Len(datas) |->
        IF fault.kind = "deflate" /\ i = fault.prop
        THEN <<0>> \o Tail(datas[i]) ELSE datas[i]]

DamagedChunkBytes(bytes, fault) ==
    CASE fault.kind = "chunk_magic" -> [bytes EXCEPT ![4] = 88]
      [] fault.kind = "chunk_json" -> [bytes EXCEPT ![8 + ChunkMetaFixed] = 99]
      [] OTHER -> bytes

DamagedChunk(g, e, base, count, props, fault) ==
    DamagedChunkBytes(
        ChunkBytes(DamagedChunkMeta(ChunkMetaOf(g, e, base, count, props), fault),
                   DamagedDatas(PropDatas(props), fault)),
        fault)

\* chunk k of the file, damaged if the fault is in it
BuildChunk(g, e, k, fault) ==
    IF fault.chunk = k
    THEN DamagedChunk(g, e, ChunkBase(k), ChunkCount(g, k),
                      AssignOffsets(ChunkProps(g, e, ChunkBase(k), ChunkCount(g, k)), 0),
                      fault)
    ELSE encode_chunk(g, e, ChunkBase(k), ChunkCount(g, k))

DamagedMeta(meta, fault) ==
    CASE fault.kind = "file_version" -> [meta EXCEPT !.version = 2]
      [] fault.kind = "chunk_count" ->
            [meta EXCEPT !.chunks =
                Append(@, [offset |-> meta.all_chunk_bytes, bytes |-> 0])]
      [] OTHER -> meta

DamagedHeader(hdr, fault) ==
    CASE fault.kind = "magic" -> [hdr EXCEPT ![4] = 49]
      [] fault.kind = "meta_json" -> [hdr EXCEPT ![10] = 9]
      [] OTHER -> hdr

DamagedFile(g, e, chunks, fault) ==
    DamagedHeader(HeaderBytes(DamagedMeta(RadMetaOf(g, e, chunks), fault)), fault)
    \o Concat(chunks)

BuildFile(g, e, fault) ==
    DamagedFile(g, e, [k \in 1..NumChunks(g) |-> BuildChunk(g, e, k, fault)], fault)

\* ---- where the units of a stream end (reference layout) ----------------
CeilTo8(n) == 8 * ((n + 7) \div 8)

RECURSIVE PaddedLen(_, _)
PaddedLen(props, i) ==
    IF i = 0 THEN 0 ELSE CeilTo8(Len(props[i].data)) + PaddedLen(props, i - 1)

Unit(unit, k, property, base, count, end) ==
    [unit |-> unit, chunk |-> k, property |-> property, base |-> base,
     count |-> count, end |-> end]

ChunkUnitsAt(k, base, count, props, hdrEnd) ==
    <<Unit("chunk_header", k, "", base, count, hdrEnd)>>
    \o [i \in 1..Len(props) |->
           Unit("property", k, props[i].meta.property, base, count,
                hdrEnd + PaddedLen(props, i))]

ChunkUnitsOf(k, base, count, props, start) ==
    ChunkUnitsAt(k, base, count, props,
                 start + 8 + CeilTo8(ChunkMetaFixed + 7 * Len(props)) + 8)

ChunkUnits(g, e, k, start) ==
    ChunkUnitsOf(k, ChunkBase(k), ChunkCount(g, k),
                 ChunkProps(g, e, ChunkBase(k), ChunkCount(g, k)), start)

RECURSIVE FileChunkUnits(_, _, _, _)
ThenChunkUnits(g, e, k, u) == u \o FileChunkUnits(g, e, k + 1, u[Len(u)].end)

FileChunkUnits(g, e, k, start) ==
    IF k > NumChunks(g) THEN <<>>
    ELSE ThenChunkUnits(g, e, k, ChunkUnits(g, e, k, start))

FileUnitsFrom(g, e, hdrEnd) ==
    <<Unit("header", 0, "", 0, 0, hdrEnd)>> \o FileChunkUnits(g, e, 1, hdrEnd)

FileUnits(g, e, fault) ==
    FileUnitsFrom(g, e, 8 + CeilTo8(MetaFixed + 4 * (NumChunks(g)
                          + (IF fault.kind = "chunk_count" THEN 1 ELSE 0)) + 1))

\* index in units of the unit the fault sits in (0: no fault)
FaultUnit(units, fault) ==
    IF fault.kind = "none" THEN 0
    ELSE IF fault.chunk = 0 THEN 1
    ELSE CHOOSE i \in 1..Len(units) :
            /\ units[i].chunk = fault.chunk
            /\ IF fault.prop = 0 THEN units[i].unit = "chunk_header"
               ELSE /\ units[i].unit = "property"
                    /\ i > 1
                    /\ Cardinality({h \in 1..i : units[h].chunk = fault.chunk
                                                /\ units[h].unit = "property"}) = fault.prop

\* a stream: its bytes, what it is, where its units end, and the number of
\* bytes that follow the last chunk
Wire(bytes, shape, k, fault, units, trailing) ==
    [bytes |-> bytes, shape |-> shape, chunk |-> k, fault |-> fault,
     units |-> units, faultUnit |-> FaultUnit(units, fault),
     end |-> Len(bytes) - trailing]

NoWire == Wire(<<>>, "none", 0, NoFault, <<>>, 0)

NoFile == [bytes |-> <<>>, chunks |-> <<>>, meta |-> None]

\* streams with a fault or with bytes after the last chunk are built for
\* the largest array without SH and without tree
FaultInput(g, e) ==
    g.num_splats = MaxSplats /\ g.max_sh_degree = 0 /\ g.children = <<>>

ChunkFaults(g, e) ==
    { x \in Faults(g, e) : x.kind \in {"chunk_version", "offset"} /\ x.prop <= 1 }

DamagedStreams(g, e, bytes) ==
    { Wire(bytes \o [i \in 1..TrailingBytes |-> 7], "trailing", 0, NoFault,
           FileUnits(g, e, NoFault), TrailingBytes) }
    \cup
    { Wire(BuildFile(g, e, fault), "file", 0, fault, FileUnits(g, e, fault), 0) :
         fault \in Faults(g, e) }
    \cup
    { Wire(BuildChunk(g, e, fault.chunk, fault), "chunk", fault.chunk, fault,
           ChunkUnits(g, e, fault.chunk, 0), 0) : fault \in ChunkFaults(g, e) }

Streams(g, e, f) ==
    { Wire(f.bytes, "file", 0, NoFault, FileUnits(g, e, NoFault), 0) }
    \cup { Wire(f.chunks[k], "chunk", k, NoFault, ChunkUnits(g, e, k, 0), 0) :
             k \in 1..Len(f.chunks) }
    \cup (IF FaultInput(g, e) THEN DamagedStreams(g, e, f.bytes) ELSE {})

(***************************************************************************)
(* SpecRad                                                                 *)
(***************************************************************************)
BhIdle == [pc |-> "idle"]

CtIdle == [pc |-> "idle"]

TvIdle == [pc |-> "idle"]

CaIdle == [pc |-> "idle"]

QzIdle == [pc |-> "idle"]

UlIdle == [pc |-> "idle"]

BlIdle == [pc |-> "idle"]

LtIdle == [pc |-> "idle"]

PkIdle == [pc |-> "idle"]

RadInit ==
    /\ pc = "start"
    /\ \E in \in Inputs : getter = in[1] /\ encoder = in[2]
    /\ file = NoFile
    /\ wire = NoWire
    /\ pushed = 0
    /\ dec = NewDecoder
    /\ res = "none"
    /\ lastOp = "none"
    /\ failed = FALSE
    /\ nfinish = 0
    /\ straddled = FALSE
    /\ bh = BhIdle
    /\ ct = CtIdle
    /\ tv = TvIdle
    /\ ca = CaIdle
    /\ qz = QzIdle
    /\ ul = UlIdle
    /\ bl = BlIdle
    /\ lt = LtIdle
    /\ pk = PkIdle

\* RadEncoder::encode
Encode ==
    /\ pc = "start"
    /\ file' = encode(getter, encoder)
    /\ pc' = "encoded"
    /\ UNCHANGED <<getter, encoder, wire, pushed, dec, res, lastOp, failed, nfinish, straddled, besidesRad>>

\* RadDecoder::new on a fresh receiver, for one of the streams
Open ==
    /\ pc = "encoded"
    /\ \E w \in Streams(getter, encoder, file) : wire' = w
    /\ dec' = NewDecoder
    /\ pc' = "stream"
    /\ UNCHANGED <<getter, encoder, file, pushed, res, lastOp, failed, nfinish, straddled, besidesRad>>

\* ChunkReceiver::push with the next k bytes of the stream
Pushed(k, out) ==
    /\ dec' = out.d
    /\ res' = out.r
    /\ failed' = (failed \/ out.r = "err")
    /\ lastOp' = "push"
    /\ pushed' = pushed + k
    /\ straddled' = (straddled \/ (out.r = "ok" /\ out.d.buffer # <<>>))
    /\ UNCHANGED <<pc, getter, encoder, file, wire, nfinish, besidesRad>>

PushBytes(k) == Pushed(k, push(dec, SubSeq(wire.bytes, pushed + 1, pushed + k)))

Push ==
    /\ pc = "stream"
    /\ \E k \in (0..MaxPush) \cup {Len(wire.bytes) - pushed} :
          /\ pushed + k <= Len(wire.bytes)
          /\ PushBytes(k)

\* ChunkReceiver::finish
Finished(p) ==
    /\ dec' = finish_polled(p).d
    /\ res' = finish_polled(p).r
    /\ failed' = (failed \/ p.r = "err")

Finish ==
    /\ pc = "stream"
    /\ nfinish < MaxFinish
    /\ Finished(poll(dec))
    /\ lastOp' = "finish"
    /\ nfinish' = nfinish + 1
    /\ UNCHANGED <<pc, getter, encoder, file, wire, pushed, straddled, besidesRad>>

RadNext == Encode \/ Open \/ Push \/ Finish

SpecRad == RadInit /\ [][RadNext]_vars

(***************************************************************************)
(* Properties of the RAD encoder and decoder                               *)
(***************************************************************************)
Streaming == pc = "stream"

ValidStream == Streaming /\ wire.fault.kind = "none"

Prefix == SubSeq(wire.bytes, 1, pushed)

IsWrite(c) == c.op \notin {"init_splats", "set_encoding", "finish"}

Writes(d) == SelectSeq(d.splats.calls, IsWrite)

NotFinish(c) == c.op # "finish"

\* the property units of a stream whose last padded byte is among the first n
Due(units, n) == SelectSeq(units, LAMBDA u : u.unit = "property" /\ u.end <= n)

\* the last unit boundary at or before byte n
Boundary(units, n) ==
    LET ends == {units[i].end : i \in 1..Len(units)} \cap (0..n)
    IN  IF ends = {} THEN 0 ELSE CHOOSE m \in ends : \A x \in ends : x <= m

\* call c writes the property of unit u (a lone chunk is written at base 0)
Matches(c, u) ==
    /\ c.op = u.property
    /\ c.base = (IF wire.shape = "chunk" THEN 0 ELSE u.base)
    /\ c.count = u.count

\* the calls that write property p over splat index i
Covering(calls, p, i) ==
    {c \in 1..Len(calls) :
        calls[c].op = p /\ calls[c].base <= i /\ i < calls[c].base + calls[c].count}

EncodedProperties(g, e) ==
    {"center", "alpha", "rgb", "scales", "orientation"}
    \cup (IF Min(g.max_sh_degree, e.max_sh) >= 1 THEN {"sh1"} ELSE {})
    \cup (IF Min(g.max_sh_degree, e.max_sh) >= 2 THEN {"sh2"} ELSE {})
    \cup (IF Min(g.max_sh_degree, e.max_sh) >= 3 THEN {"sh3"} ELSE {})
    \cup (IF g.children # <<>> THEN {"child_count", "child_start"} ELSE {})

\* where the bytes of the faulty unit have arrived far enough to be rejected
FaultReach(w) ==
    LET start == IF w.faultUnit = 1 THEN 0 ELSE w.units[w.faultUnit - 1].end
    IN  CASE w.fault.kind \in {"magic", "chunk_magic"} -> start + 4
          [] w.fault.kind \in {"offset", "deflate", "encoding"} -> start
          [] OTHER -> w.units[w.faultUnit].end

\* C1: feeding a valid stream in any split of push() calls leaves the
\* receiver with the same calls, and the decoder with the same done flag,
\* offset and buffer, as one push() of the same bytes; finish() then answers
\* the same.
C1_SplitEquivalence ==
    ValidStream =>
        LET one == push(NewDecoder, Prefix).d
        IN  /\ SelectSeq(dec.splats.calls, NotFinish) = one.splats.calls
            /\ dec.done = one.done
            /\ dec.offset = one.offset
            /\ dec.buffer = one.buffer
            /\ lastOp = "finish" => res = finish(one).r

C1_Witness ==
    /\ ValidStream /\ wire.shape = "file" /\ Len(file.chunks) >= 2
    /\ straddled /\ dec.done /\ lastOp = "finish" /\ res = "ok"

\* C2: decoding the encoder's output with a fresh decoder succeeds at
\* finish(), consumes exactly the file's bytes, writes every encoded
\* property for every splat index exactly once, and hands the receiver the
\* child_count / child_start values the encoder read.
C2_RoundTrip ==
    (ValidStream /\ wire.shape = "file") =>
        /\ dec.done => pushed = Len(file.bytes)
        /\ (lastOp = "finish" /\ pushed = Len(file.bytes)) =>
              LET calls == dec.splats.calls
              IN  /\ res = "ok"
                  /\ dec.done
                  /\ dec.offset = Len(file.bytes)
                  /\ dec.buffer = <<>>
                  /\ \A c \in 1..Len(calls) :
                        IsWrite(calls[c]) =>
                            calls[c].op \in EncodedProperties(getter, encoder)
                  /\ \A p \in EncodedProperties(getter, encoder) :
                        \A i \in 0..(getter.num_splats - 1) :
                            Cardinality(Covering(calls, p, i)) = 1
                  /\ \A c \in 1..Len(calls) : \A i \in 1..calls[c].count :
                        /\ calls[c].op = "child_count" =>
                              calls[c].data[i] = Len(getter.children[calls[c].base + i])
                        /\ calls[c].op = "child_start" =>
                              calls[c].data[i] =
                                  (IF getter.children[calls[c].base + i] = <<>> THEN 0
                                   ELSE getter.children[calls[c].base + i][1])

C2_Witness ==
    /\ ValidStream /\ wire.shape = "file" /\ Len(file.chunks) >= 2
    /\ getter.children # <<>>
    /\ lastOp = "finish" /\ res = "ok"
    /\ \E c \in 1..Len(dec.splats.calls) :
          /\ dec.splats.calls[c].op = "child_start"
          /\ \E i \in 1..dec.splats.calls[c].count : dec.splats.calls[c].data[i] > 0

\* C3: when a property's declared offset differs from the decoder's
\* position, push() returns an error as soon as the property is reached, and
\* neither that property nor any later one is written: the writes are
\* those of the properties before it.
C3_OffsetMismatch ==
    (Streaming /\ wire.fault.kind = "offset") =>
        LET before == Due(SubSeq(wire.units, 1, wire.faultUnit - 1), pushed)
            w == Writes(dec)
        IN  /\ (lastOp # "none" /\ pushed >= FaultReach(wire)) => res = "err"
            /\ Len(w) <= Len(before)
            /\ \A i \in 1..Len(w) : Matches(w[i], before[i])

C3_Witness ==
    /\ Streaming /\ wire.fault.kind = "offset" /\ wire.fault.prop > 1
    /\ lastOp = "push" /\ res = "err" /\ straddled
    /\ Len(Writes(dec)) >= 1

\* C4: once poll() has made a push() or finish() fail, every later push()
\* and finish() fails too, and the receiver gets no further call.
C4_StickyFailure ==
    [][failed => (res' = "err" /\ dec'.splats = dec.splats)]_vars

\* C5: finish() returns an error whenever the bytes pushed so far stop short
\* of the end of the last declared chunk; on a valid stream pushed to that
\* end it returns Ok and gives the receiver exactly one finish() call.
C5_FinishCompleteness ==
    [][(Streaming /\ lastOp' = "finish" /\ nfinish' = nfinish + 1) =>
          /\ pushed < wire.end => res' = "err"
          /\ (wire.fault.kind = "none" /\ pushed >= wire.end) =>
                /\ res' = "ok"
                /\ dec'.splats.calls =
                      Append(dec.splats.calls,
                             [op |-> "finish", base |-> 0, count |-> 0, data |-> <<>>])
      ]_vars

\* C6: a valid stream that is one chunk on its own initialises the receiver
\* from the chunk meta (count, maxSh, lodTree), writes every property at
\* base 0 whatever base the chunk declares, and is done exactly when the
\* chunk's last byte has been pushed.
C6_SingleChunk ==
    (ValidStream /\ wire.shape = "chunk") =>
        LET calls == dec.splats.calls
            w == Writes(dec)
        IN  /\ (lastOp # "none" /\ pushed >= wire.units[1].end) =>
                  /\ Len(calls) >= 1
                  /\ calls[1] =
                        [op |-> "init_splats", base |-> 0,
                         count |-> Min(getter.num_splats - (wire.chunk - 1) * CHUNK_SIZE,
                                       CHUNK_SIZE),
                         data |-> <<Min(getter.max_sh_degree, encoder.max_sh),
                                    IF getter.children # <<>> THEN 1 ELSE 0>>]
            /\ \A c \in 2..Len(calls) : calls[c].op # "init_splats"
            /\ \A i \in 1..Len(w) : w[i].base = 0 /\ w[i].count = calls[1].count
            /\ lastOp # "none" => (dec.done <=> pushed >= wire.end)
            /\ dec.done => Len(w) = Len(wire.units) - 1

C6_Witness ==
    /\ ValidStream /\ wire.shape = "chunk" /\ wire.chunk >= 2
    /\ dec.done /\ Len(Writes(dec)) >= 5

\* C7: push() returns an error on a first magic that is neither 'RAD0' nor
\* 'RADC', on a chunk of a RAD0 file that does not start with 'RADC', and on
\* a file or chunk meta whose version is not 1; no property of the
\* offending file or chunk is written.
C7_RejectedInput ==
    (Streaming /\ wire.fault.kind \in {"magic", "chunk_magic", "file_version",
                                       "chunk_version"}) =>
        /\ (lastOp # "none" /\ pushed >= FaultReach(wire)) => failed
        /\ \A c \in 1..Len(dec.splats.calls) :
              IsWrite(dec.splats.calls[c]) =>
                  /\ wire.fault.chunk # 0
                  /\ wire.shape = "file"
                  /\ dec.splats.calls[c].base # (wire.fault.chunk - 1) * CHUNK_SIZE

\* C8: on a valid stream every declared property of every chunk is written
\* exactly once, in declaration and chunk order, and only once all of its
\* padded bytes have been pushed; the decoder has removed exactly the units
\* completed so far and holds the bytes after the last boundary.
C8_PropertyPacing ==
    ValidStream =>
        LET due == Due(wire.units, pushed)
            w == Writes(dec)
        IN  /\ Len(w) = (IF lastOp = "none" THEN 0 ELSE Len(due))
            /\ \A i \in 1..Len(w) : Matches(w[i], due[i])
            /\ dec.buffer = SubSeq(wire.bytes, dec.offset + 1, pushed)
            /\ dec.offset = (IF dec.done THEN pushed
                             ELSE Boundary(wire.units, pushed))

C8_Witness ==
    /\ ValidStream /\ wire.shape = "file" /\ straddled /\ ~dec.done
    /\ dec.chunk_index >= 1 /\ dec.prop_index >= 1
    /\ dec.buffer # <<>>

\* the chunk meta and property table as written into chunk bytes c
WrittenChunkMeta(c) ==
    from_slice_chunk_meta(SubSeq(c, 9, 8 + from_le_bytes(SubSeq(c, 5, 8)))).v

WrittenMeta(b) ==
    from_slice_meta(SubSeq(b, 9, 8 + from_le_bytes(SubSeq(b, 5, 8)))).v

RECURSIVE RoundedBytes(_, _)
RoundedBytes(properties, n) ==
    IF n = 0 THEN 0
    ELSE CeilTo8(properties[n].bytes) + RoundedBytes(properties, n - 1)

RECURSIVE TotalLen(_, _)
TotalLen(chunks, n) == IF n = 0 THEN 0 ELSE Len(chunks[n]) + TotalLen(chunks, n - 1)

\* C9: in the encoder's output every chunk's length is a multiple of 8,
\* property i's offset is the sum of the 8-byte-rounded lengths of the
\* properties before it, payloadBytes is the sum over all of them,
\* chunks[i].offset is the sum of the lengths of the chunks before it,
\* allChunkBytes is the total, and there are ceil(N / CHUNK_SIZE) chunks,
\* chunk i with base i * CHUNK_SIZE and count min(CHUNK_SIZE, N - base).
C9_EncoderLayout ==
    pc # "start" =>
        LET chunks == file.chunks
            meta == WrittenMeta(file.bytes)
            start == Len(file.bytes) - TotalLen(chunks, Len(chunks))
        IN  /\ Len(chunks) * CHUNK_SIZE >= getter.num_splats
            /\ (Len(chunks) - 1) * CHUNK_SIZE < getter.num_splats \/ Len(chunks) = 0
            /\ Len(meta.chunks) = Len(chunks)
            /\ meta.all_chunk_bytes = TotalLen(chunks, Len(chunks))
            /\ start = 8 + CeilTo8(from_le_bytes(SubSeq(file.bytes, 5, 8)))
            /\ \A i \in 1..Len(chunks) :
                  LET cm == WrittenChunkMeta(chunks[i])
                  IN  /\ meta.chunks[i].offset = TotalLen(chunks, i - 1)
                      /\ meta.chunks[i].bytes = Len(chunks[i])
                      /\ SubSeq(file.bytes, start + meta.chunks[i].offset + 1,
                                start + meta.chunks[i].offset + meta.chunks[i].bytes)
                            = chunks[i]
                      /\ Len(chunks[i]) % 8 = 0
                      /\ cm.base = (i - 1) * CHUNK_SIZE
                      /\ cm.count = Min(CHUNK_SIZE, getter.num_splats - cm.base)
                      /\ \A j \in 1..Len(cm.properties) :
                            cm.properties[j].offset = RoundedBytes(cm.properties, j - 1)
                      /\ cm.payload_bytes =
                            RoundedBytes(cm.properties, Len(cm.properties))
                      /\ Len(chunks[i]) =
                            8 + CeilTo8(from_le_bytes(SubSeq(chunks[i], 5, 8))) + 8
                            + cm.payload_bytes

C9_Witness ==
    /\ pc = "encoded" /\ Len(file.chunks) >= 2 /\ getter.children # <<>>
    /\ \E j \in 1..Len(WrittenChunkMeta(file.chunks[2]).properties) :
          WrittenChunkMeta(file.chunks[2]).properties[j].bytes % 8 # 0

(***************************************************************************)
(* Bhatt-LoD (bhatt_lod.rs) over a TsplatArray (tsplat.rs, csplat.rs).     *)
(* A splat is carried by its centre (integer coordinates), its feature     *)
(* size and its weight area * opacity; indices are 0-based as in the code. *)
(***************************************************************************)
MaxLodSplats == 3

MaxCoord == 4

MaxSize == 4

MERGE_BASE == 2

Splat(center, fs, w) == [center |-> center, fs |-> fs, w |-> w]

feature_size(splat) == splat.fs

area_opacity(splat) == splat.w

grid_i32(splat, step) ==
    [d \in 1..3 |-> splat.center[d] \div step]

\* the input splats the arrays are built from
SplatKinds ==
    { Splat(<<0, 1, 0>>, 1, 4), Splat(<<1, 0, 0>>, 1, 4),
      Splat(<<-1, -1, 0>>, 1, 1),
      Splat(<<MaxCoord, MaxCoord, MaxCoord>>, MaxSize, 4),
      Splat(<<0, 1, 0>>, 2, 1) }

\* lod_base as a fraction <<numerator, denominator>>
LodBases == { <<3, 2>>, <<7, 4>> }

SwapAt(data, a, b) ==
    [data EXCEPT ![a + 1] = data[b + 1], ![b + 1] = data[a + 1]]

RECURSIVE SwapLoop(_, _, _)
SwapLoop(dest_of_src, i, swaps) ==
    IF i >= Len(dest_of_src) THEN swaps
    ELSE IF dest_of_src[i + 1] # i
    THEN LET j == dest_of_src[i + 1]
         IN  SwapLoop(SwapAt(dest_of_src, i, j), i, Append(swaps, <<i, j>>))
    ELSE SwapLoop(dest_of_src, i + 1, swaps)

\* (mutation) index_map is taken for dest_of_src
compute_swaps_map_as_dest(index_map) == SwapLoop(index_map, 0, <<>>)

compute_swaps(index_map) ==
    LET n == Len(index_map)
        dest_of_src == [old \in 1..n |->
                           (CHOOSE new \in 1..n : index_map[new] = old - 1) - 1]
    IN  SwapLoop(dest_of_src, 0, <<>>)

RECURSIVE apply_swaps(_, _)
apply_swaps(data, swaps) ==
    IF swaps = <<>> THEN data
    ELSE apply_swaps(SwapAt(data, Head(swaps)[1], Head(swaps)[2]), Tail(swaps))

\* CsplatArray::permute: the child lists move with their splats and keep
\* their contents
permute(a, index_map) ==
    LET swaps == compute_swaps(index_map)
    IN  [a EXCEPT !.splats = apply_swaps(@, swaps),
                  !.children = IF @ = <<>> THEN @ ELSE apply_swaps(@, swaps)]

truncate(a, count) ==
    [a EXCEPT !.splats = SubSeq(@, 1, Min(count, Len(@))),
              !.children = IF @ = <<>> THEN @ ELSE SubSeq(@, 1, Min(count, Len(@)))]

\* index_map.sort_by_key (a stable sort) followed by permute
sort_by(a) ==
    LET n == Len(a.splats)
        before(x, y) ==
            \/ feature_size(a.splats[x + 1]) < feature_size(a.splats[y + 1])
            \/ feature_size(a.splats[x + 1]) = feature_size(a.splats[y + 1]) /\ x < y
        index_map == [i \in 1..n |->
                        CHOOSE x \in 0..(n - 1) :
                            Cardinality({y \in 0..(n - 1) : before(y, x)}) = i - 1]
    IN  permute(a, index_map)

prepare_children(a) ==
    [a EXCEPT !.children =
        [i \in 1..Len(a.splats) |-> IF i <= Len(@) THEN @[i] ELSE <<>>]]

\* the merged splat: weights are the normalised area * opacity of the two,
\* the centre their weighted mean; its feature size is left to the caller
new_merged(a, indices, fs) ==
    LET s1 == a.splats[indices[1] + 1]
        s2 == a.splats[indices[2] + 1]
        total_weight == area_opacity(s1) + area_opacity(s2)
        center == [d \in 1..3 |->
                     (area_opacity(s1) * s1.center[d] + area_opacity(s2) * s2.center[d])
                        \div total_weight]
    IN  [a EXCEPT !.splats = Append(@, Splat(center, fs, total_weight)),
                  !.children = Append(@, indices)]

set_children_ignored(a, parent, children) == a

set_children(a, parent, children) ==
    [a EXCEPT !.children[parent + 1] = children]

get_children(a, parent) == a.children[parent + 1]

\* ceil(log(MERGE_BASE, size)) for a size of at least 1
LevelOf(size) ==
    CHOOSE k \in 0..(size + 1) :
        /\ MERGE_BASE ^ k >= size
        /\ k = 0 \/ MERGE_BASE ^ (k - 1) < size

HeapTop_largest(a, active) ==
    CHOOSE x \in active : \A y \in active :
        \/ feature_size(a.splats[y + 1]) < feature_size(a.splats[x + 1])
        \/ feature_size(a.splats[y + 1]) = feature_size(a.splats[x + 1]) /\ y <= x

\* the entry BinaryHeap::pop returns: greatest (-feature_size, index)
HeapTop(a, active) ==
    CHOOSE x \in active : \A y \in active :
        \/ feature_size(a.splats[y + 1]) > feature_size(a.splats[x + 1])
        \/ feature_size(a.splats[y + 1]) = feature_size(a.splats[x + 1]) /\ y <= x

\* the active splats bucketed in the 27 cells around the cell of index
Neighbors(b, index) ==
    LET step == MERGE_BASE ^ b.level
        grid == grid_i32(b.a.splats[index + 1], step)
    IN  { neighbor \in b.cells :
            /\ \A d \in 1..3 :
                  grid_i32(b.a.splats[neighbor + 1], step)[d] \in
                      (grid[d] - 1)..(grid[d] + 1)
            /\ b.is_active[neighbor + 1]
            /\ neighbor # index }

deactivate(is_active, index, best_neighbor) ==
    [is_active EXCEPT ![index + 1] = FALSE, ![best_neighbor + 1] = FALSE]

Max_left(x, y) == x

Max(x, y) == IF x >= y THEN x ELSE y

NEG_INFINITY == -1

\* recurse_to_output and its loop over the children: the array, to_output,
\* the feature size handed up and the indices handed up
RECURSIVE recurse_to_output(_, _, _, _)
RECURSIVE recurse_children(_, _, _, _)
recurse_to_output(a, index, to_output, lod_base) ==
    LET size == area_opacity(a.splats[index + 1])
        children == get_children(a, index)
    IN  IF children = <<>>
        THEN [a |-> a, to_output |-> to_output, size |-> size, list |-> <<index>>]
        ELSE
        LET r == recurse_children(a, children, to_output, lod_base)
            out == \/ r.to_output[index + 1]
                   \/ size * lod_base[2] >= r.size * lod_base[1]
        IN  IF out
            THEN [a |-> set_children(r.a, index, r.list),
                  to_output |-> [r.to_output EXCEPT ![index + 1] = TRUE],
                  size |-> size, list |-> <<index>>]
            ELSE [a |-> set_children(r.a, index, <<>>),
                  to_output |-> r.to_output,
                  size |-> r.size, list |-> r.list]

recurse_children(a, children, to_output, lod_base) ==
    IF children = <<>>
    THEN [a |-> a, to_output |-> to_output, size |-> NEG_INFINITY, list |-> <<>>]
    ELSE LET c == recurse_to_output(a, Head(children), to_output, lod_base)
             rest == recurse_children(c.a, Tail(children), c.to_output, lod_base)
         IN  [a |-> rest.a, to_output |-> rest.to_output,
              size |-> Max(c.size, rest.size), list |-> c.list \o rest.list]

new_child_range_shifted(start, n) == [k \in 1..n |-> start + k]

\* (indices.len()..(indices.len() + children.len())).collect()
new_child_range(start, n) == [k \in 1..n |-> start + k - 1]

\* recurse_indices over r = [a, indices, frontier]; limit_size is a fraction
RECURSIVE recurse_indices(_, _, _)
RECURSIVE recurse_each(_, _, _)
recurse_indices(r, index, limit_size) ==
    IF feature_size(r.a.splats[index + 1]) * limit_size[2] < limit_size[1]
    THEN [r EXCEPT !.frontier = Append(@, index)]
    ELSE
    LET children == get_children(r.a, index)
    IN  IF children = <<>> THEN r
        ELSE
        LET new_children == new_child_range(Len(r.indices), Len(children))
            sorted == SortSeq(children, LAMBDA x, y : x < y)
        IN  recurse_each([r EXCEPT !.a = set_children(@, index, new_children),
                                   !.indices = @ \o sorted],
                         sorted, limit_size)

recurse_each(r, children, limit_size) ==
    IF children = <<>> THEN r
    ELSE recurse_each(recurse_indices(r, Head(children), limit_size),
                      Tail(children), limit_size)

BhInput(splats, lod_base) ==
    [pc |-> "start", a |-> [splats |-> splats, children |-> <<>>],
     lod_base |-> lod_base, initial_len |-> Len(splats), is_active |-> <<>>,
     level |-> 0, frontier |-> 0, active |-> {}, next_active |-> {},
     cells |-> {}, to_output |-> <<>>, output_count |-> 0, indices |-> <<>>,
     limit_size |-> <<0, 1>>, lod_frontier |-> <<>>]

\* no file is being written or read
RadIdle ==
    /\ pc = "lod"
    /\ getter = Getter(0, 0, <<>>, FALSE)
    /\ encoder = EncoderAuto
    /\ file = NoFile
    /\ wire = NoWire
    /\ pushed = 0
    /\ dec = NewDecoder
    /\ res = "none"
    /\ lastOp = "none"
    /\ failed = FALSE
    /\ nfinish = 0
    /\ straddled = FALSE

BhInit ==
    /\ RadIdle
    /\ ct = CtIdle
    /\ tv = TvIdle
    /\ ca = CaIdle
    /\ qz = QzIdle
    /\ ul = UlIdle
    /\ bl = BlIdle
    /\ lt = LtIdle
    /\ pk = PkIdle
    /\ \E n \in 0..MaxLodSplats : \E splats \in [1..n -> SplatKinds] :
          \E lod_base \in LodBases : bh = BhInput(splats, lod_base)

\* entry of compute_lod_tree up to the merge loop
BhStart ==
    /\ bh.pc = "start"
    /\ IF bh.initial_len = 0 THEN bh' = [bh EXCEPT !.pc = "done"]
       ELSE LET a == prepare_children(sort_by(bh.a))
            IN  bh' = [bh EXCEPT !.pc = "level", !.a = a,
                                 !.is_active = [i \in 1..Len(a.splats) |-> TRUE],
                                 !.level = LevelOf(feature_size(a.splats[1]))]
    /\ UNCHANGED besidesBh

\* top of the merge loop: advance the frontier, fill the heap and the grid
BhLevel ==
    /\ bh.pc = "level"
    /\ LET step == MERGE_BASE ^ bh.level
           stop == { f \in bh.frontier..bh.initial_len :
                       f = bh.initial_len
                       \/ feature_size(bh.a.splats[f + 1]) > step }
           frontier == CHOOSE f \in stop : \A g \in stop : f <= g
           active == bh.active \cup (bh.frontier..(frontier - 1))
       IN  bh' = [bh EXCEPT !.pc = "pop", !.frontier = frontier,
                            !.active = active, !.cells = active,
                            !.next_active = {}]
    /\ UNCHANGED besidesBh

\* one turn of the while-let loop over the heap
BhPop ==
    /\ bh.pc = "pop"
    /\ bh.active # {}
    /\ LET index == HeapTop(bh.a, bh.active)
           active == bh.active \ {index}
           step == MERGE_BASE ^ bh.level
           candidates == Neighbors(bh, index)
       IN  IF ~bh.is_active[index + 1]
           THEN bh' = [bh EXCEPT !.active = active]
           ELSE IF candidates = {}
           THEN bh' = [bh EXCEPT !.active = active,
                                 !.next_active = @ \cup {index}]
           ELSE
           \E best_neighbor \in candidates :
           \E size \in { Max(feature_size(bh.a.splats[index + 1]),
                             feature_size(bh.a.splats[best_neighbor + 1])) * m :
                         m \in 1..2 } :
              LET merged == Len(bh.a.splats)
                  a == new_merged(bh.a, <<index, best_neighbor>>, size)
                  is_active == Append(deactivate(bh.is_active, index, best_neighbor),
                                      TRUE)
                  cells == (bh.cells \ {index}) \ {best_neighbor}
              IN  IF size > step
                  THEN bh' = [bh EXCEPT !.a = a, !.is_active = is_active,
                                        !.cells = cells, !.active = active,
                                        !.next_active = @ \cup {merged}]
                  ELSE bh' = [bh EXCEPT !.a = a, !.is_active = is_active,
                                        !.cells = cells \cup {merged},
                                        !.active = active \cup {merged}]
    /\ UNCHANGED besidesBh

BhLevelEnd_frontier_unchecked ==
    /\ bh.pc = "pop"
    /\ bh.active = {}
    /\ bh' = [bh EXCEPT !.level = @ + 1, !.active = bh.next_active,
                        !.pc = IF Cardinality(bh.next_active) <= 1 THEN "prune"
                               ELSE "level"]
    /\ UNCHANGED besidesBh

\* the heap is drained: next level, or leave the loop
BhLevelEnd ==
    /\ bh.pc = "pop"
    /\ bh.active = {}
    /\ bh' = [bh EXCEPT !.level = @ + 1, !.active = bh.next_active,
                        !.pc = IF bh.frontier < bh.initial_len THEN "level"
                               ELSE IF Cardinality(bh.next_active) <= 1 THEN "prune"
                               ELSE "level"]
    /\ UNCHANGED besidesBh

\* choose the output set from the root down, and seed the re-indexing
BhPrune ==
    /\ bh.pc = "prune"
    /\ LET n == Len(bh.a.splats)
           root_index == n - 1
           to_output == [i \in 1..n |-> i <= bh.initial_len \/ i - 1 = root_index]
           r == recurse_to_output(bh.a, root_index, to_output, bh.lod_base)
       IN  bh' = [bh EXCEPT !.pc = "index", !.a = r.a, !.to_output = r.to_output,
                            !.output_count =
                                Cardinality({i \in 1..n : r.to_output[i]}),
                            !.indices = <<root_index>>,
                            !.limit_size = <<feature_size(bh.a.splats[n]), 1>>,
                            !.lod_frontier = <<root_index>>]
    /\ UNCHANGED besidesBh

\* one turn of the re-indexing loop
BhIndex ==
    /\ bh.pc = "index"
    /\ LET r == recurse_each([a |-> bh.a, indices |-> bh.indices, frontier |-> <<>>],
                             bh.lod_frontier, bh.limit_size)
       IN  IF r.frontier = <<>>
           THEN bh' = [bh EXCEPT !.pc = "permute", !.a = r.a, !.indices = r.indices,
                                 !.lod_frontier = <<>>]
           ELSE bh' = [bh EXCEPT !.a = r.a, !.indices = r.indices,
                                 !.limit_size = <<@[1], @[2] * 4>>,
                                 !.lod_frontier = r.frontier]
    /\ UNCHANGED besidesBh

\* assert_eq, then move the output set to the front and drop the rest
BhPermute ==
    /\ bh.pc = "permute"
    /\ IF Len(bh.indices) # bh.output_count
       THEN bh' = [bh EXCEPT !.pc = "panicked"]
       ELSE LET n == Len(bh.a.splats)
                rest == SelectSeq([i \in 1..n |-> i - 1],
                                  LAMBDA i : ~bh.to_output[i + 1])
                indices == bh.indices \o rest
            IN  bh' = [bh EXCEPT !.pc = "done", !.indices = indices,
                                 !.a = truncate(permute(bh.a, indices),
                                                bh.output_count)]
    /\ UNCHANGED besidesBh

BhNext == BhStart \/ BhLevel \/ BhPop \/ BhLevelEnd \/ BhPrune \/ BhIndex \/ BhPermute

SpecBhatt == BhInit /\ [][BhNext]_vars

\* how often node j is listed as a child
Occurrences(children, j) ==
    Cardinality({ p \in UNION { {<<i, k>> : k \in 1..Len(children[i])} :
                                i \in 1..Len(children) } :
                    children[p[1]][p[2]] = j })

RECURSIVE Descendants(_, _)
Descendants(children, nodes) ==
    LET next == nodes \cup UNION { {children[i + 1][k] : k \in 1..Len(children[i + 1])} :
                                   i \in nodes }
    IN  IF next = nodes THEN nodes ELSE Descendants(children, next)

\* C10: when compute_lod_tree returns on a non-empty input, exactly one node
\* of the returned array is in no child list, every other node is in exactly
\* one child list exactly once, and every node descends from that root.
C10_BhattTree ==
    (bh.pc = "done" /\ bh.initial_len > 0) =>
        LET children == bh.a.children
            nodes == 0..(Len(bh.a.splats) - 1)
            roots == {j \in nodes : Occurrences(children, j) = 0}
        IN  /\ Len(children) = Len(bh.a.splats)
            /\ \A i \in nodes : \A k \in 1..Len(children[i + 1]) :
                  children[i + 1][k] \in nodes
            /\ Cardinality(roots) = 1
            /\ \A j \in nodes \ roots : Occurrences(children, j) = 1
            /\ Descendants(children, roots) = nodes

C10_Witness ==
    /\ bh.pc = "done" /\ bh.initial_len = 3
    /\ Len(bh.a.splats) = 4
    /\ Len(bh.a.children[1]) = 3

(***************************************************************************)
(* Chunk-tree layout (chunk_tree.rs) of a tree held in a TsplatArray.      *)
(* Centres are integer triples.  The key batch.sort_by_key orders by is    *)
(* computed outside this code base: the sorted batch is any ordering of    *)
(* the batch.                                                              *)
(***************************************************************************)
\* largest tree handed to chunk_tree
MaxTreeNodes == 5

\* the batch sizes (chunk_tree.rs:11-12 has 65536 and 8192; scaled so that
\* a batch fills up within the trees above)
BATCH_SIZE == 4

MIN_BATCH_SIZE == 2

\* Aabb::empty() extended by add_point over the centres of the nodes
Aabb(a, nodes) ==
    [min |-> [d \in 1..3 |->
                CHOOSE m \in {a.splats[nodes[i] + 1].center[d] : i \in 1..Len(nodes)} :
                    \A i \in 1..Len(nodes) : m <= a.splats[nodes[i] + 1].center[d]],
     max |-> [d \in 1..3 |->
                CHOOSE m \in {a.splats[nodes[i] + 1].center[d] : i \in 1..Len(nodes)} :
                    \A i \in 1..Len(nodes) : m >= a.splats[nodes[i] + 1].center[d]]]

extent(aabb) == [d \in 1..3 |-> aabb.max[d] - aabb.min[d]]

\* Aabb::center, doubled (the code halves the sum)
center2(aabb) == [d \in 1..3 |-> aabb.min[d] + aabb.max[d]]

max_element(v) == Max(v[1], Max(v[2], v[3]))

min_element(v) == Min(v[1], Min(v[2], v[3]))

\* Aabb::longest_axis, as the index of the axis
longest_axis(aabb) ==
    IF extent(aabb)[1] >= extent(aabb)[2] /\ extent(aabb)[1] >= extent(aabb)[3] THEN 1
    ELSE IF extent(aabb)[2] >= extent(aabb)[3] THEN 2
    ELSE 3

new_children_relative(indices, children) ==
    [k \in 1..Len(children) |-> k - 1]

\* (indices.len()..(indices.len() + children.len())).collect()
new_children(indices, children) ==
    [k \in 1..Len(children) |-> Len(indices) + k - 1]

\* the inner while-let loop over r = [a, indices, ordering]; it stops at the
\* first parent whose children do not fit below end_index
RECURSIVE output_batch(_, _)
output_parent(r, parent, children, end_index) ==
    IF Len(r.indices) + Len(children) > end_index THEN r
    ELSE output_batch(
            [a |-> set_children(r.a, parent, new_children(r.indices, children)),
             indices |-> r.indices \o children,
             ordering |-> Tail(r.ordering) \o children],
            end_index)

output_batch(r, end_index) ==
    IF r.ordering = <<>> THEN r
    ELSE output_parent(r, Head(r.ordering), get_children(r.a, Head(r.ordering)),
                       end_index)

upper_half_strict(a, ordering, axis, split2) ==
    SelectSeq(ordering, LAMBDA parent : 2 * a.splats[parent + 1].center[axis] > split2)

\* the second list of partition(|parent| center[axis] < split)
upper_half(a, ordering, axis, split2) ==
    SelectSeq(ordering, LAMBDA parent : ~(2 * a.splats[parent + 1].center[axis] < split2))

lower_half(a, ordering, axis, split2) ==
    SelectSeq(ordering, LAMBDA parent : 2 * a.splats[parent + 1].center[axis] < split2)

\* new_batches.sort_by_key(|b| -(b.len() as isize)), a stable sort
longer_first(x, y) == IF Len(y) > Len(x) THEN <<y, x>> ELSE <<x, y>>

split_axis(a, ordering, axis, split2) ==
    longer_first(lower_half(a, ordering, axis, split2),
                 upper_half(a, ordering, axis, split2))

octant_of(c, split2) ==
    (IF 2 * c[1] < split2[1] THEN 0 ELSE 1)
    + (IF 2 * c[2] < split2[2] THEN 0 ELSE 2)
    + (IF 2 * c[3] < split2[3] THEN 0 ELSE 4)

HilbertOrder == <<0, 1, 3, 2, 6, 7, 5, 4>>

split_octants(a, ordering, split2) ==
    [k \in 1..8 |->
        SelectSeq(ordering,
                  LAMBDA parent : octant_of(a.splats[parent + 1].center, split2)
                                     = HilbertOrder[k])]

\* the batches a residual ordering is split into
split_residual(a, ordering, aabb) ==
    IF max_element(extent(aabb)) >= 3 * min_element(extent(aabb))
    THEN split_axis(a, ordering, longest_axis(aabb), center2(aabb)[longest_axis(aabb)])
    ELSE split_octants(a, ordering, center2(aabb))

next_batches(a, ordering) ==
    IF ordering = <<>> THEN <<>> ELSE split_residual(a, ordering, Aabb(a, ordering))

end_index_of_from_start(start_index) == start_index + BATCH_SIZE

end_index_of(start_index) ==
    div_ceil(start_index + MIN_BATCH_SIZE, BATCH_SIZE) * BATCH_SIZE


\* ---- the trees handed to chunk_tree ------------------------------------
\* parent[i] is the parent of node i (1 <= i < n), or -1 for a node that is
\* in no child list; node 0 is the root
ParentMaps(n) == { p \in [1..(n - 1) -> -1..(n - 1)] : \A i \in 1..(n - 1) : p[i] < i }

\* the same tree with the labels of the nodes other than the root reversed
Mirror(n, p) ==
    [i \in 1..(n - 1) |-> IF p[n - i] <= 0 THEN p[n - i] ELSE n - p[n - i]]

ChildLists(n, p) ==
    [j \in 1..n |-> SelectSeq([i \in 1..(n - 1) |-> i], LAMBDA i : p[i] = j - 1)]

Trees(n) ==
    { ChildLists(n, p) : p \in ParentMaps(n) }
    \cup { ChildLists(n, Mirror(n, p)) : p \in ParentMaps(n) }

\* where the nodes sit: all in one point, on a line, on the corners of a
\* cube, on a diagonal
Layouts(n) ==
    { [i \in 1..n |-> <<0, 0, 0>>],
      [i \in 1..n |-> <<i, 0, 0>>],
      [i \in 1..n |-> <<i % 2, (i \div 2) % 2, (i \div 4) % 2>>],
      [i \in 1..n |-> <<i % 2, i % 2, i % 2>>] }

\* chunk_tree(splats, 0, ..) up to the loop over the batches
CtInput(children, layout) ==
    [pc |-> "loop",
     a |-> [splats |-> [i \in 1..Len(children) |-> Splat(layout[i], 1, 1)],
            children |-> children],
     tree |-> children,
     indices |-> <<0>>,
     batches |-> << <<0>> >>,
     split |-> FALSE]

CtInit ==
    /\ RadIdle
    /\ bh = BhIdle
    /\ tv = TvIdle
    /\ ca = CaIdle
    /\ qz = QzIdle
    /\ ul = UlIdle
    /\ bl = BlIdle
    /\ lt = LtIdle
    /\ pk = PkIdle
    /\ \E n \in 1..MaxTreeNodes : \E children \in Trees(n) : \E layout \in Layouts(n) :
          ct = CtInput(children, layout)

\* the rest of one turn of the loop, after the inner loop has run
CtQueue(r) ==
    ct' = [ct EXCEPT !.a = r.a, !.indices = r.indices,
                     !.batches = Tail(@) \o next_batches(r.a, r.ordering),
                     !.split = (@ \/ r.ordering # <<>>)]

\* one turn of `while let Some(batch) = batches.pop_front()`
CtBatch ==
    /\ ct.pc = "loop"
    /\ ct.batches # <<>>
    /\ \E order \in Permutations(1..Len(Head(ct.batches))) :
          CtQueue(output_batch(
              [a |-> ct.a, indices |-> ct.indices,
               ordering |-> [i \in 1..Len(Head(ct.batches)) |->
                                Head(ct.batches)[order[i]]]],
              end_index_of(Len(ct.indices))))
    /\ UNCHANGED besidesCt

\* the queue is empty: assert_eq, then permute
CtPermute ==
    /\ ct.pc = "loop"
    /\ ct.batches = <<>>
    /\ IF Len(ct.indices) # Len(ct.a.splats)
       THEN ct' = [ct EXCEPT !.pc = "panicked"]
       ELSE ct' = [ct EXCEPT !.pc = "done", !.a = permute(ct.a, ct.indices)]
    /\ UNCHANGED besidesCt

CtNext == CtBatch \/ CtPermute

SpecChunk == CtInit /\ [][CtNext]_vars

\* every node of the tree handed in descends from node 0
AllReachable(children) == Descendants(children, {0}) = 0..(Len(children) - 1)

\* C11: after chunk_tree returns, every child of a node has a greater index
\* than the node, and the children of a node fill a contiguous index range.
C11_ChildrenAfterParent ==
    ct.pc = "done" =>
        \A i \in 0..(Len(ct.a.splats) - 1) :
            LET c == ct.a.children[i + 1]
                cs == {c[k] : k \in 1..Len(c)}
            IN  c # <<>> =>
                    /\ \A x \in cs : x > i
                    /\ \E lo \in cs : \E hi \in cs :
                          /\ \A x \in cs : lo <= x /\ x <= hi
                          /\ hi - lo + 1 = Len(c)

C11_Witness ==
    /\ ct.pc = "done"
    /\ Len(ct.a.splats) = MaxTreeNodes
    /\ \E i \in 1..MaxTreeNodes : Len(ct.a.children[i]) >= 2
    /\ \E i \in 1..MaxTreeNodes : ct.a.children[i] # ct.tree[i]

\* C12: on a tree whose nodes all descend from the root, chunk_tree passes
\* its length assertion, the index map it permutes by lists every node
\* exactly once, and the root comes first.
C12_Permutation ==
    (ct.pc \in {"done", "panicked"} /\ AllReachable(ct.tree)) =>
        /\ ct.pc = "done"
        /\ Len(ct.indices) = Len(ct.tree)
        /\ \A j \in 0..(Len(ct.tree) - 1) :
              Cardinality({k \in 1..Len(ct.indices) : ct.indices[k] = j}) = 1
        /\ ct.indices[1] = 0

C12_Witness ==
    /\ ct.pc = "done"
    /\ AllReachable(ct.tree)
    /\ Len(ct.tree) = MaxTreeNodes
    /\ ct.split

(***************************************************************************)
(* Runtime LoD traversal: new_traverse_lod_trees                           *)
(*                                                                         *)
(* The worker state holds one LoD tree: its splats stored page by page,    *)
(* and the chunk -> page table.  Every instance of a call names that tree  *)
(* and brings its own view, so a splat's pixel scale is drawn when the     *)
(* code computes it.  A page holds PAGE_SPAN splats (1 << 16 in the code). *)
(***************************************************************************)
\* largest number of instances in one call
MaxInstances == 2

\* largest number of splats in the LoD tree
MaxLodNodes == 4

\* largest max_splats handed in
MaxBudget == 3

\* pixel scales are 0..MaxScale
MaxScale == 1

PAGE_SPAN == 3

\* child_count is a u16 and a page holds 1 << 16 splats: the largest child
\* count is one below the page size
MaxChildCount == PAGE_SPAN - 1

NOT_RESIDENT == -1

PixelScales == 0..MaxScale

\* pixel_scale_limit values handed in
PixelScaleLimits == {MaxScale - 1}

\* new_compute_pixel_scale is a function of the splat and of the instance:
\* a draw agrees with what is known of it, a set of
\* (pixel_scale, inst_index, paged_index)
agrees(known, pixel_scale, inst_index, paged_index) ==
    \A c \in known : (c[2] = inst_index /\ c[3] = paged_index) => c[1] = pixel_scale

LodSplat(child_start, child_count) == [child_start |-> child_start, child_count |-> child_count]

\* the children of node i (0-based) of tree t, as unpaged indices
LodChildren(t, i) == t[i + 1].child_start .. (t[i + 1].child_start + t[i + 1].child_count - 1)

\* LoD trees of n splats in the layout the builder writes: node 0 is the
\* root, the children of a node are contiguous and come after it (here:
\* the child ranges follow one another in the order of their parents)
LodTrees(n) ==
    { [i \in 1..n |-> LodSplat(IF counts[i] = 0 THEN 0 ELSE 1 + SumTo(counts, i - 1), counts[i])] :
        counts \in { c \in [1..n -> 0..Min(n - 1, MaxChildCount)] :
                        /\ SumTo(c, n) = n - 1
                        /\ \A i \in 1..(n - 1) : SumTo(c, i) >= i } }

LodChunks(n) == (n + PAGE_SPAN - 1) \div PAGE_SPAN

\* chunk -> page tables: chunk 0 (the root's) is resident, no page is used
\* twice, and the table may be shorter than the number of chunks
ChunkToPage(n) ==
    UNION { { c2p \in [1..len -> (0..(LodChunks(n) - 1)) \cup {NOT_RESIDENT}] :
                /\ c2p[1] # NOT_RESIDENT
                /\ \A a \in 1..len : \A b \in 1..len :
                      (a # b /\ c2p[a] # NOT_RESIDENT) => c2p[a] # c2p[b] }
            : len \in 1..LodChunks(n) }

\* (page << 16) | (index & 0xffff)
paged(page, index) == page * PAGE_SPAN + (index % PAGE_SPAN)

\* the splat store: the splats of the resident chunks, by paged index
PagedSplats(t, c2p) ==
    LET resident == {i \in 0..(Len(t) - 1) :
                        /\ (i \div PAGE_SPAN) + 1 <= Len(c2p)
                        /\ c2p[(i \div PAGE_SPAN) + 1] # NOT_RESIDENT}
        at(i) == paged(c2p[(i \div PAGE_SPAN) + 1], i)
    IN  [p \in {at(i) : i \in resident} |-> t[(CHOOSE i \in resident : at(i) = p) + 1]]

within_limit_reversed(pixel_scale, limit) == pixel_scale >= limit

\* pixel_scale <= pixel_scale_limit
within_limit(pixel_scale, limit) == pixel_scale <= limit

\* BinaryHeap::peek on (pixel_scale, inst_index, paged_index): the greatest.
\* The heap may hold equal entries; a fourth component tells them apart.
heap_before(a, b) ==
    \/ a[1] < b[1]
    \/ a[1] = b[1] /\ a[2] < b[2]
    \/ a[1] = b[1] /\ a[2] = b[2] /\ a[3] < b[3]
    \/ a[1] = b[1] /\ a[2] = b[2] /\ a[3] = b[3] /\ a[4] <= b[4]

\* frontier.push of entries that differ from one another
frontier_push(frontier, entries) ==
    frontier \cup
        { <<e[1], e[2], e[3],
            CHOOSE k \in 0..Cardinality(frontier) :
                /\ <<e[1], e[2], e[3], k>> \notin frontier
                /\ \A j \in 0..(k - 1) : <<e[1], e[2], e[3], j>> \in frontier>> : e \in entries }

peek(frontier) == CHOOSE e \in frontier : \A f \in frontier : heap_before(f, e)

RECURSIVE drain_frontier(_, _)
\* frontier.drain() into output
drain_frontier(frontier, output) ==
    IF frontier = {} THEN output
    ELSE drain_frontier(frontier \ {peek(frontier)}, Append(output, <<peek(frontier)[2], peek(frontier)[3]>>))

\* if touched_set.insert((lod_id, chunk)) { touched.push((lod_id, chunk)) }:
\* every instance names the one tree, so a pair is told by its chunk
touch(touched, chunk) ==
    IF \E k \in 1..Len(touched) : touched[k] = chunk THEN touched
    ELSE Append(touched, chunk)

\* (mutation) only the chunk of the first child is touched
touch_children_first_only(touched, first, last) == touch(touched, first)

\* the chunks of the first and of the last child of a parent are touched
touch_children(touched, first, last) ==
    IF last # first THEN touch(touch(touched, first), last) ELSE touch(touched, first)

TvInput(n, max_splats, limit, t, c2p) ==
    [pc |-> "seed", num_instances |-> n, max_splats |-> max_splats,
     pixel_scale_limit |-> limit, tree |-> t,
     splats |-> PagedSplats(t, c2p), chunk_to_page |-> c2p,
     frontier |-> {}, output |-> <<>>, num_splats |-> 0,
     computed |-> {}, budget_stop |-> FALSE, touched |-> <<>>,
     call |-> 1, view |-> {}, first |-> [output |-> <<>>, touched |-> <<>>]]

TvInit ==
    /\ RadIdle
    /\ bh = BhIdle
    /\ ct = CtIdle
    /\ ca = CaIdle
    /\ qz = QzIdle
    /\ ul = UlIdle
    /\ bl = BlIdle
    /\ lt = LtIdle
    /\ pk = PkIdle
    /\ \E n \in 0..MaxInstances : \E max_splats \in 0..MaxBudget :
       \E limit \in PixelScaleLimits : \E k \in 1..MaxLodNodes :
       \E t \in LodTrees(k) : \E c2p \in ChunkToPage(k) :
          tv = TvInput(n, max_splats, limit, t, c2p)

\* root_pages[inst_index], with 0xFFFFFFFF read as page 0: the caller hands
\* in the page of chunk 0
root_page(c2p) == IF c2p[1] = NOT_RESIDENT THEN 0 ELSE c2p[1]

\* the root of every instance goes on the frontier
TvSeed ==
    /\ tv.pc = "seed"
    /\ \E scale \in [0..(tv.num_instances - 1) -> PixelScales] :
          /\ \A i \in 0..(tv.num_instances - 1) :
                agrees(tv.view, scale[i], i, paged(root_page(tv.chunk_to_page), 0))
          /\ LET roots == {<<scale[i], i, paged(root_page(tv.chunk_to_page), 0)>> : i \in 0..(tv.num_instances - 1)}
             IN  tv' = [tv EXCEPT !.pc = "loop", !.frontier = frontier_push(tv.frontier, roots),
                                  !.computed = roots,
                                  !.touched = IF tv.num_instances = 0 THEN tv.touched ELSE touch(tv.touched, 0),
                                  !.num_splats = tv.num_instances]
    /\ UNCHANGED besidesTv

\* the loop ends: the frontier is empty or its greatest pixel scale is
\* within the limit; what is left on the frontier is emitted
TvLimit ==
    /\ tv.pc = "loop"
    /\ IF tv.frontier = {} THEN TRUE ELSE within_limit(peek(tv.frontier)[1], tv.pixel_scale_limit)
    /\ tv' = [tv EXCEPT !.pc = "done", !.frontier = {},
                         !.output = drain_frontier(tv.frontier, tv.output)]
    /\ UNCHANGED besidesTv

TvTop == peek(tv.frontier)

TvTopSplat == tv.splats[TvTop[3]]

TvOver == tv.pc = "loop" /\ tv.frontier # {} /\ ~within_limit(TvTop[1], tv.pixel_scale_limit)

\* a leaf on top of the frontier is emitted
TvLeaf ==
    /\ TvOver
    /\ TvTopSplat.child_count = 0
    /\ tv' = [tv EXCEPT !.frontier = tv.frontier \ {TvTop},
                         !.output = Append(tv.output, <<TvTop[2], TvTop[3]>>)]
    /\ UNCHANGED besidesTv

new_num_splats == tv.num_splats - 1 + TvTopSplat.child_count

\* (mutation) the node that did not fit is dropped instead of emitted
TvBudget_top_dropped ==
    /\ TvOver
    /\ TvTopSplat.child_count # 0
    /\ new_num_splats > tv.max_splats
    /\ tv' = [tv EXCEPT !.pc = "done", !.frontier = {}, !.budget_stop = TRUE,
                         !.output = drain_frontier(tv.frontier \ {TvTop}, tv.output)]
    /\ UNCHANGED besidesTv

\* replacing the top by its children would exceed max_splats: the loop
\* ends, and what is left on the frontier is emitted
TvBudget ==
    /\ TvOver
    /\ TvTopSplat.child_count # 0
    /\ new_num_splats > tv.max_splats
    /\ tv' = [tv EXCEPT !.pc = "done", !.frontier = {}, !.budget_stop = TRUE,
                         !.output = drain_frontier(tv.frontier, tv.output)]
    /\ UNCHANGED besidesTv

first_chunk == TvTopSplat.child_start \div PAGE_SPAN

last_chunk == (TvTopSplat.child_start + TvTopSplat.child_count - 1) \div PAGE_SPAN

\* (mutation) only the page of the first child chunk is looked at
children_missing_first_only(c2p, first, last) ==
    IF last >= Len(c2p) THEN TRUE
    ELSE c2p[first + 1] = NOT_RESIDENT

\* last_chunk >= chunk_to_page.len(), or first_page or last_page is 0xFFFFFFFF
children_missing(c2p, first, last) ==
    IF last >= Len(c2p) THEN TRUE
    ELSE c2p[first + 1] = NOT_RESIDENT \/ c2p[last + 1] = NOT_RESIDENT

TvExpandable ==
    /\ TvOver
    /\ TvTopSplat.child_count # 0
    /\ new_num_splats <= tv.max_splats

\* the first or the last child chunk is not resident: the parent is emitted
TvStandIn ==
    /\ TvExpandable
    /\ children_missing(tv.chunk_to_page, first_chunk, last_chunk)
    /\ tv' = [tv EXCEPT !.frontier = tv.frontier \ {TvTop},
                         !.touched = touch_children(tv.touched, first_chunk, last_chunk),
                         !.output = Append(tv.output, <<TvTop[2], TvTop[3]>>)]
    /\ UNCHANGED besidesTv

LodChildrenOfTop == TvTopSplat.child_start .. (TvTopSplat.child_start + TvTopSplat.child_count - 1)

\* the children of the top, as frontier entries under the pixel scales drawn
TvChildren(scale) ==
    [child \in DOMAIN scale |->
        <<scale[child], TvTop[2], paged(tv.chunk_to_page[(child \div PAGE_SPAN) + 1], child)>>]

RECURSIVE output_children(_, _, _, _, _)
\* the children from child to last that are within the limit, emitted in turn
output_children(children, child, last, limit, output) ==
    IF child > last THEN output
    ELSE output_children(children, child + 1, last, limit,
             IF within_limit(children[child][1], limit)
             THEN Append(output, <<children[child][2], children[child][3]>>)
             ELSE output)

\* the entries of the children that are not within the limit
push_children(children, limit) ==
    {children[child] : child \in {c \in DOMAIN children : ~within_limit(children[c][1], limit)}}

\* the top gives way to its children under the pixel scales drawn
TvExpanded(children) ==
    [tv EXCEPT
        !.frontier = frontier_push(tv.frontier \ {TvTop}, push_children(children, tv.pixel_scale_limit)),
        !.output = output_children(children, TvTopSplat.child_start,
                       TvTopSplat.child_start + TvTopSplat.child_count - 1,
                       tv.pixel_scale_limit, tv.output),
        !.computed = tv.computed \cup {children[child] : child \in DOMAIN children},
        !.touched = touch_children(tv.touched, first_chunk, last_chunk),
        !.num_splats = new_num_splats]

\* the top is replaced by its children: those within the limit are
\* emitted, the others go on the frontier
TvExpand ==
    /\ TvExpandable
    /\ ~children_missing(tv.chunk_to_page, first_chunk, last_chunk)
    /\ \E scale \in [LodChildrenOfTop -> PixelScales] :
          /\ \A child \in LodChildrenOfTop :
                agrees(tv.computed \cup tv.view, scale[child],
                       TvChildren(scale)[child][2], TvChildren(scale)[child][3])
          /\ tv' = TvExpanded(TvChildren(scale))
    /\ UNCHANGED besidesTv

TvNext == TvSeed \/ TvLimit \/ TvLeaf \/ TvBudget \/ TvStandIn \/ TvExpand

SpecTraverse == TvInit /\ [][TvNext]_vars


\* the pixel scale computed for an emitted (inst_index, paged_index)
ComputedScale(e) == (CHOOSE c \in tv.computed : c[2] = e[1] /\ c[3] = e[2])[1]

Emitted == {tv.output[k] : k \in 1..Len(tv.output)}

\* C13: when a traversal returns, the number of emitted splat indices over
\* all instances is at most max_splats.
C13_WithinBudget ==
    tv.pc = "done" => Len(tv.output) <= tv.max_splats

\* the first or the last chunk of the children of the splat is not resident
StandIn(splat) ==
    \E chunk \in {splat.child_start \div PAGE_SPAN,
                  (splat.child_start + splat.child_count - 1) \div PAGE_SPAN} :
        IF chunk + 1 > Len(tv.chunk_to_page) THEN TRUE
        ELSE tv.chunk_to_page[chunk + 1] = NOT_RESIDENT

\* C14 as stated: in a traversal that did not stop on the max_splats
\* budget, every emitted node has a computed pixel scale within the limit.
C14_EmittedWithinLimit ==
    (tv.pc = "done" /\ ~tv.budget_stop) =>
        \A e \in Emitted : ComputedScale(e) <= tv.pixel_scale_limit

\* C14 amended: in a traversal that did not stop on the max_splats budget,
\* every emitted node has a computed pixel scale within the limit, or is a
\* leaf, or is a parent whose first or last child chunk is not resident.
C14_EmittedWithinLimitOrLeafOrStandIn ==
    (tv.pc = "done" /\ ~tv.budget_stop) =>
        \A e \in Emitted :
            \/ ComputedScale(e) <= tv.pixel_scale_limit
            \/ tv.splats[e[2]].child_count = 0
            \/ StandIn(tv.splats[e[2]])

C14_Witness ==
    /\ tv.pc = "done"
    /\ ~tv.budget_stop
    /\ tv.num_splats > tv.num_instances
    /\ \E e \in Emitted : ComputedScale(e) <= tv.pixel_scale_limit
    /\ \E e \in Emitted : ComputedScale(e) > tv.pixel_scale_limit /\ tv.splats[e[2]].child_count = 0
    /\ \E e \in Emitted : ComputedScale(e) > tv.pixel_scale_limit /\ tv.splats[e[2]].child_count # 0


(***************************************************************************)
(* CsplatArray: the parallel columns (splats, children, sh1, sh2, sh3)     *)
(* under retain, retain_children, permute, truncate, new_merged,           *)
(* set_children and prepare_children.  A row of an sh column is carried by *)
(* one coefficient; a predicate handed to retain by the bits it returns.   *)
(***************************************************************************)
\* largest number of splats in the array
MaxRows == 3

\* largest number of operations applied in a row
MaxOps == 2

MAX_SH_DEGREE == 3

\* Vec::retain(|_| *bits.next().unwrap()) with bits = keep.iter()
retain_vec(col, keep) ==
    [k \in 1..Cardinality({i \in 1..Len(col) : keep[i]}) |->
        col[CHOOSE i \in 1..Len(col) :
                keep[i] /\ Cardinality({j \in 1..i : keep[j]}) = k]]

retain_present(col, keep) == IF col = <<>> THEN col ELSE retain_vec(col, keep)

retain_sh_unfiltered(a, keep) ==
    [a EXCEPT !.splats = retain_vec(@, keep),
              !.children = retain_present(@, keep)]

\* CsplatArray::retain, keep being what the predicate answers splat by splat
retain(a, keep) ==
    [a EXCEPT !.splats = retain_vec(@, keep),
              !.children = retain_present(@, keep),
              !.sh1 = retain_present(@, keep),
              !.sh2 = retain_present(@, keep),
              !.sh3 = retain_present(@, keep)]

\* CsplatArray::retain_children, keep being what the predicate answers for
\* each splat and its child list
retain_children(a, keep) ==
    [a EXCEPT !.splats = retain_vec(@, keep),
              !.children = retain_present(@, keep),
              !.sh1 = retain_present(@, keep),
              !.sh2 = retain_present(@, keep),
              !.sh3 = retain_present(@, keep)]

swap_present(col, swaps) == IF col = <<>> THEN col ELSE apply_swaps(col, swaps)

\* CsplatArray::permute on all the columns
permute_columns(a, index_map) ==
    [permute(a, index_map) EXCEPT
        !.sh1 = swap_present(@, compute_swaps(index_map)),
        !.sh2 = swap_present(@, compute_swaps(index_map)),
        !.sh3 = swap_present(@, compute_swaps(index_map))]

truncate_present(col, count) == IF col = <<>> THEN col ELSE SubSeq(col, 1, Min(count, Len(col)))

\* CsplatArray::truncate on all the columns
truncate_columns(a, count) ==
    [truncate(a, count) EXCEPT
        !.sh1 = truncate_present(@, count),
        !.sh2 = truncate_present(@, count),
        !.sh3 = truncate_present(@, count)]

\* the merged sh row: the weighted mean of the rows of the two, rounded
merged_sh(a, indices, col) ==
    LET w1 == area_opacity(a.splats[indices[1] + 1])
        w2 == area_opacity(a.splats[indices[2] + 1])
    IN  (2 * (w1 * col[indices[1] + 1] + w2 * col[indices[2] + 1]) + (w1 + w2))
            \div (2 * (w1 + w2))

\* CsplatArray::new_merged on all the columns
new_merged_columns(a, indices, fs) ==
    [new_merged(a, indices, fs) EXCEPT
        !.sh1 = IF a.max_sh_degree >= 1 THEN Append(@, merged_sh(a, indices, @)) ELSE @,
        !.sh2 = IF a.max_sh_degree >= 2 THEN Append(@, merged_sh(a, indices, @)) ELSE @,
        !.sh3 = IF a.max_sh_degree >= 3 THEN Append(@, merged_sh(a, indices, @)) ELSE @]

\* a CsplatArray of n splats: rows that differ from one another, the sh
\* columns the degree asks for, and a child column (none, or a tree)
CsplatArray(n, max_sh_degree, children) ==
    [max_sh_degree |-> max_sh_degree,
     splats |-> [i \in 1..n |-> Splat(<<i, 0, 0>>, 1, i)],
     children |-> children,
     sh1 |-> IF max_sh_degree >= 1 THEN [i \in 1..n |-> i] ELSE <<>>,
     sh2 |-> IF max_sh_degree >= 2 THEN [i \in 1..n |-> 2 * i] ELSE <<>>,
     sh3 |-> IF max_sh_degree >= 3 THEN [i \in 1..n |-> 3 * i] ELSE <<>>]

CaInput(a) ==
    [pc |-> "ops", a |-> a, before |-> a, op |-> "none", keep |-> <<>>, nops |-> 0,
     index_map |-> <<>>]

CaInit ==
    /\ RadIdle
    /\ bh = BhIdle
    /\ ct = CtIdle
    /\ tv = TvIdle
    /\ qz = QzIdle
    /\ ul = UlIdle
    /\ bl = BlIdle
    /\ lt = LtIdle
    /\ pk = PkIdle
    /\ \E n \in 0..MaxRows : \E max_sh_degree \in 0..MAX_SH_DEGREE :
       \E children \in {<<>>} \cup (IF n = 0 THEN {} ELSE Trees(n)) :
          ca = CaInput(CsplatArray(n, max_sh_degree, children))

CaReady == ca.pc = "ops" /\ ca.nops < MaxOps

CaApplied(op, a, keep) ==
    [ca EXCEPT !.a = a, !.before = ca.a, !.op = op, !.keep = keep, !.nops = ca.nops + 1,
               !.index_map = <<>>]

CaRetain ==
    /\ CaReady
    /\ \E keep \in [1..Len(ca.a.splats) -> BOOLEAN] :
          ca' = CaApplied("retain", retain(ca.a, keep), keep)
    /\ UNCHANGED besidesCa

CaRetainChildren ==
    /\ CaReady
    /\ \E keep \in [1..Len(ca.a.splats) -> BOOLEAN] :
          ca' = CaApplied("retain_children", retain_children(ca.a, keep), keep)
    /\ UNCHANGED besidesCa

CaPermute ==
    /\ CaReady
    /\ \E order \in Permutations(1..Len(ca.a.splats)) :
          ca' = [CaApplied("permute",
                     permute_columns(ca.a, [k \in 1..Len(ca.a.splats) |-> order[k] - 1]), <<>>)
                    EXCEPT !.index_map = [k \in 1..Len(ca.a.splats) |-> order[k] - 1]]
    /\ UNCHANGED besidesCa

CaTruncate ==
    /\ CaReady
    /\ \E count \in 0..Len(ca.a.splats) :
          ca' = CaApplied("truncate", truncate_columns(ca.a, count), <<>>)
    /\ UNCHANGED besidesCa

CaPrepareChildren ==
    /\ CaReady
    /\ ca' = CaApplied("prepare_children", prepare_children(ca.a), <<>>)
    /\ UNCHANGED besidesCa

\* new_merged as compute_lod_tree calls it: on two splats of the array,
\* after prepare_children
CaNewMerged ==
    /\ CaReady
    /\ Len(ca.a.splats) < MaxRows
    /\ Len(ca.a.children) = Len(ca.a.splats)
    /\ \E i \in 0..(Len(ca.a.splats) - 1) : \E j \in 0..(Len(ca.a.splats) - 1) :
          /\ i # j
          /\ ca' = CaApplied("new_merged", new_merged_columns(ca.a, <<i, j>>, MaxSize), <<>>)
    /\ UNCHANGED besidesCa

\* set_children with the indices of splats of the array
CaSetChildren ==
    /\ CaReady
    /\ \E parent \in 0..(Len(ca.a.children) - 1) :
       \E lo \in 0..(Len(ca.a.splats) - 1) : \E hi \in (lo - 1)..(Len(ca.a.splats) - 1) :
          ca' = CaApplied("set_children",
                    set_children(ca.a, parent, [k \in 1..(hi - lo + 1) |-> lo + k - 1]), <<>>)
    /\ UNCHANGED besidesCa

CaNext ==
    \/ CaRetain \/ CaRetainChildren \/ CaPermute \/ CaTruncate
    \/ CaPrepareChildren \/ CaNewMerged \/ CaSetChildren

SpecCsplat == CaInit /\ [][CaNext]_vars

\* the filters alone, one after another
CaFilter == CaRetain \/ CaRetainChildren

SpecRetain == CaInit /\ [][CaFilter]_vars

\* the row of the array before the operation that row k of the array comes from
old_index(keep, k) ==
    CHOOSE i \in 1..Len(keep) : keep[i] /\ Cardinality({j \in 1..i : keep[j]}) = k

Columns(a) == <<a.children, a.sh1, a.sh2, a.sh3>>

\* C15: after retain(p) (and retain_children), the splat column and every
\* present parallel column have the same length, and row k of every column
\* is the row of the k-th splat the predicate kept, in the original order.
C15_RetainCoherent ==
    ca.op \in {"retain", "retain_children"} =>
        /\ Len(ca.a.splats) = Cardinality({i \in 1..Len(ca.keep) : ca.keep[i]})
        /\ \A k \in 1..Len(ca.a.splats) :
              ca.a.splats[k] = ca.before.splats[old_index(ca.keep, k)]
        /\ \A c \in 1..4 :
              IF Columns(ca.before)[c] = <<>>
              THEN Columns(ca.a)[c] = <<>>
              ELSE /\ Len(Columns(ca.a)[c]) = Len(ca.a.splats)
                   /\ \A k \in 1..Len(ca.a.splats) :
                         Columns(ca.a)[c][k] = Columns(ca.before)[c][old_index(ca.keep, k)]

C15_Witness ==
    /\ ca.op = "retain"
    /\ Len(ca.before.splats) = MaxRows
    /\ ca.keep = [i \in 1..MaxRows |-> i # 1]
    /\ ca.a.sh3 # <<>>
    /\ \E i \in 1..Len(ca.a.children) : ca.a.children[i] # <<>>

\* C16: every child index stored in a child list addresses a splat of the
\* array, whatever operations were applied.
C16_ChildIndicesValid ==
    \A i \in 1..Len(ca.a.children) : \A k \in 1..Len(ca.a.children[i]) :
        ca.a.children[i][k] < Len(ca.a.splats)


(***************************************************************************)
(* RAD quantizers on a column of dims * count elements.                    *)
(*                                                                         *)
(* An f32 is carried by its bit pattern (sign bit clear, so that it fits). *)
(* The inputs of the byte quantizers are carried in halves of a            *)
(* quantisation step (min = 0, max = 255 steps for r8; max = 127 steps for *)
(* s8), and so are the values their decoders return.                       *)
(***************************************************************************)
\* largest dims of a column
MaxDims == 2

\* largest count of a column
MaxCount == 2

\* element i (from 0) of dimension d (from 0) in the bytes: the index the
\* decoders start from, in elements
plane_index(d, i, count) == d * count + i

encode_f32(data, dims, count) ==
    Concat([k \in 1..(dims * count) |-> to_le_bytes(dim_major(data, dims, count)[k], 4)])

decode_f32(data, dims, count) ==
    [k \in 1..(dims * count) |->
        from_le_bytes(SubSeq(data,
            ((k - 1) \div dims) * 4 + ((k - 1) % dims) * count * 4 + 1,
            ((k - 1) \div dims) * 4 + ((k - 1) % dims) * count * 4 + 4))]

\* f16::from_f32 on a half-representable value (zero or normal), as bits
f16_from_f32(bits) ==
    IF bits = 0 THEN 0
    ELSE ((bits \div 8388608) - 112) * 1024 + (bits % 8388608) \div 8192

\* f16::to_f32, as bits
f16_to_f32(half) ==
    IF half = 0 THEN 0
    ELSE ((half \div 1024) + 112) * 8388608 + (half % 1024) * 8192

encode_f16(data, dims, count) ==
    Concat([k \in 1..(dims * count) |->
        to_le_bytes(f16_from_f32(dim_major(data, dims, count)[k]), 2)])

decode_f16(data, dims, count) ==
    [k \in 1..(dims * count) |->
        f16_to_f32(from_le_bytes(SubSeq(data,
            ((k - 1) \div dims) * 2 + ((k - 1) % dims) * count * 2 + 1,
            ((k - 1) \div dims) * 2 + ((k - 1) % dims) * count * 2 + 2)))]

\* byte b of every element, plane after plane
byte_planes(data, dims, count, width) ==
    [p \in 1..(width * dims * count) |->
        to_le_bytes(dim_major(data, dims, count)[((p - 1) % (dims * count)) + 1], width)
            [((p - 1) \div (dims * count)) + 1]]

\* the bytes of the element at index, one from every plane
from_planes(data, index, stride, width) ==
    from_le_bytes([b \in 1..width |-> data[index + stride * (b - 1) + 1]])

encode_f32_lebytes(data, dims, count) == byte_planes(data, dims, count, 4)

decode_f32_lebytes(data, dims, count) ==
    [k \in 1..(dims * count) |->
        from_planes(data, plane_index((k - 1) % dims, (k - 1) \div dims, count), count * dims, 4)]

encode_f16_lebytes(data, dims, count) ==
    byte_planes([k \in 1..(dims * count) |-> f16_from_f32(data[k])], dims, count, 2)

decode_f16_lebytes(data, dims, count) ==
    [k \in 1..(dims * count) |->
        f16_to_f32(from_planes(data, plane_index((k - 1) % dims, (k - 1) \div dims, count), count * dims, 2))]

\* f32::round of a number of halves: half-way cases away from zero
round_halves(h) == IF h >= 0 THEN (h + 1) \div 2 ELSE 0 - ((1 - h) \div 2)

clamp(v, lo, hi) == IF v < lo THEN lo ELSE IF v > hi THEN hi ELSE v

\* ((x - min) / (max - min) * 255.0).clamp(0.0, 255.0).round() as u8
quantize_r8(h) == round_halves(clamp(h, 0, 510))

\* (x / max * 127.0).clamp(-127.0, 127.0).round() as i8 as u8
quantize_s8(h) == (round_halves(clamp(h, -254, 254)) + 256) % 256

\* (value as f32 / 255.0) * (max - min) + min, in halves
dequantize_r8(byte) == 2 * byte

\* ((value as i8) as f32 / 127.0) * max, in halves
dequantize_s8(byte) == 2 * (IF byte >= 128 THEN byte - 256 ELSE byte)

encode_r8(data, dims, count) ==
    [k \in 1..(dims * count) |-> quantize_r8(dim_major(data, dims, count)[k])]

decode_r8(data, dims, count) ==
    [k \in 1..(dims * count) |->
        dequantize_r8(data[plane_index((k - 1) % dims, (k - 1) \div dims, count) + 1])]

encode_s8(data, dims, count) ==
    [k \in 1..(dims * count) |-> quantize_s8(dim_major(data, dims, count)[k])]

decode_s8(data, dims, count) ==
    [k \in 1..(dims * count) |->
        dequantize_s8(data[plane_index((k - 1) % dims, (k - 1) \div dims, count) + 1])]

\* value.wrapping_sub(last), last being the value before it in the same
\* dimension (0 before the first)
wrapping_deltas(values, count) ==
    [k \in 1..Len(values) |->
        (values[k] - (IF (k - 1) % count = 0 THEN 0 ELSE values[k - 1]) + 256) % 256]

RECURSIVE running_shared(_, _)
running_shared(data, upto) ==
    IF upto = 0 THEN 0 ELSE (running_shared(data, upto - 1) + data[upto]) % 256

RECURSIVE running_value(_, _, _, _)
\* last[d].wrapping_add(data[index]) after elements 0..i of dimension d
running_value(data, d, i, count) ==
    IF i < 0 THEN 0
    ELSE (running_value(data, d, i - 1, count) + data[plane_index(d, i, count) + 1]) % 256

encode_r8_delta(data, dims, count) == wrapping_deltas(encode_r8(data, dims, count), count)

decode_r8_delta_shared_last(data, dims, count) ==
    [k \in 1..(dims * count) |->
        dequantize_r8(running_shared(data, plane_index((k - 1) % dims, (k - 1) \div dims, count) + 1))]

decode_r8_delta(data, dims, count) ==
    [k \in 1..(dims * count) |->
        dequantize_r8(running_value(data, (k - 1) % dims, (k - 1) \div dims, count))]

encode_s8_delta(data, dims, count) == wrapping_deltas(encode_s8(data, dims, count), count)

decode_s8_delta(data, dims, count) ==
    [k \in 1..(dims * count) |->
        dequantize_s8(running_value(data, (k - 1) % dims, (k - 1) \div dims, count))]

Quantizers ==
    {"f32", "f16", "f32_lebytes", "f16_lebytes", "u16", "u32", "r8_delta", "s8_delta"}

\* the values a column of the quantizer is drawn from
QzValues(q) ==
    CASE q \in {"f32", "f32_lebytes"} -> {1065353216, 16909060}
      [] q \in {"f16", "f16_lebytes"} -> {0, 1069547520}
      [] q = "u16" -> {1, 515}
      [] q = "u32" -> {1, 16909060}
      [] q = "r8_delta" -> {1, 301, 600}
      [] q = "s8_delta" -> {-300, -1, 100}

qz_encode(q, data, dims, count) ==
    CASE q = "f32" -> encode_f32(data, dims, count)
      [] q = "f16" -> encode_f16(data, dims, count)
      [] q = "f32_lebytes" -> encode_f32_lebytes(data, dims, count)
      [] q = "f16_lebytes" -> encode_f16_lebytes(data, dims, count)
      [] q = "u16" -> encode_u16(data, dims, count)
      [] q = "u32" -> encode_usize_as_u32(data, dims, count)
      [] q = "r8_delta" -> encode_r8_delta(data, dims, count)
      [] q = "s8_delta" -> encode_s8_delta(data, dims, count)

qz_decode(q, data, dims, count) ==
    CASE q = "f32" -> decode_f32(data, dims, count)
      [] q = "f16" -> decode_f16(data, dims, count)
      [] q = "f32_lebytes" -> decode_f32_lebytes(data, dims, count)
      [] q = "f16_lebytes" -> decode_f16_lebytes(data, dims, count)
      [] q = "u16" -> decode_u16(data, dims, count)
      [] q = "u32" -> decode_u32_as_usize(data, dims, count)
      [] q = "r8_delta" -> decode_r8_delta(data, dims, count)
      [] q = "s8_delta" -> decode_s8_delta(data, dims, count)

QzInput(q, dims, count, data) ==
    [pc |-> "column", quantizer |-> q, dims |-> dims, count |-> count,
     data |-> data, bytes |-> <<>>, out |-> <<>>]

QzInit ==
    /\ RadIdle
    /\ bh = BhIdle
    /\ ct = CtIdle
    /\ tv = TvIdle
    /\ ca = CaIdle
    /\ ul = UlIdle
    /\ bl = BlIdle
    /\ lt = LtIdle
    /\ pk = PkIdle
    /\ \E q \in Quantizers : \E dims \in 1..MaxDims : \E count \in 0..MaxCount :
       \E data \in [1..(dims * count) -> QzValues(q)] :
          qz = QzInput(q, dims, count, data)

QzEncode ==
    /\ qz.pc = "column"
    /\ qz' = [qz EXCEPT !.pc = "encoded",
                         !.bytes = qz_encode(qz.quantizer, qz.data, qz.dims, qz.count)]
    /\ UNCHANGED besidesQz

QzDecode ==
    /\ qz.pc = "encoded"
    /\ qz' = [qz EXCEPT !.pc = "decoded",
                         !.out = qz_decode(qz.quantizer, qz.bytes, qz.dims, qz.count)]
    /\ UNCHANGED besidesQz

QzNext == QzEncode \/ QzDecode

SpecQuant == QzInit /\ [][QzNext]_vars

\* C17: what the delta decoders return for the bytes of the delta encoders
\* is what the plain decoders return for the bytes of the plain encoders.
C17_DeltaIdempotence ==
    qz.pc = "decoded" =>
        /\ qz.quantizer = "r8_delta" =>
              qz.out = decode_r8(encode_r8(qz.data, qz.dims, qz.count), qz.dims, qz.count)
        /\ qz.quantizer = "s8_delta" =>
              qz.out = decode_s8(encode_s8(qz.data, qz.dims, qz.count), qz.dims, qz.count)

C17_Witness ==
    /\ qz.pc = "decoded"
    /\ qz.quantizer = "r8_delta"
    /\ qz.dims = MaxDims
    /\ qz.count = MaxCount
    /\ \E k \in 1..Len(qz.bytes) : qz.bytes[k] > 128
    /\ qz.bytes # encode_r8(qz.data, qz.dims, qz.count)
    /\ qz.data[1] > qz.data[1 + qz.dims]

\* C18: for the lossless quantizers, decode returns the column that encode
\* was given, element for element.
C18_LosslessRoundTrip ==
    (qz.pc = "decoded" /\ qz.quantizer \in {"f32", "f16", "f32_lebytes", "f16_lebytes", "u16", "u32"}) =>
        qz.out = qz.data


\* CsplatArray::has_children: the child column is not empty
has_children(a) == a.children # <<>>

\* C19: for an input of exactly one splat, compute_lod_tree returns an
\* array of length 1 for which has_children() is false.
C19_SingleSplat ==
    (bh.pc = "done" /\ bh.initial_len = 1) =>
        /\ Len(bh.a.splats) = 1
        /\ ~has_children(bh.a)


(***************************************************************************)
(* build-lod --unlod on a pre-built LoD file, method BhattLod: the file is *)
(* read into a CsplatArray, the filters keep every splat, and the array    *)
(* goes through retain_children, clear_children, compute_lod_tree and      *)
(* chunk_tree before RadEncoder writes it.                                 *)
(***************************************************************************)
UlInput(a, lod_base) ==
    [pc |-> "unlod", input |-> a, lod_base |-> lod_base, out |-> <<>>]

UlInit ==
    /\ RadIdle
    /\ bh = BhIdle
    /\ ct = CtIdle
    /\ tv = TvIdle
    /\ ca = CaIdle
    /\ qz = QzIdle
    /\ bl = BlIdle
    /\ lt = LtIdle
    /\ pk = PkIdle
    /\ \E n \in 1..MaxTreeNodes : \E children \in {<<>>} \cup Trees(n) :
       \E lod_base \in LodBases :
          ul = UlInput(CsplatArray(n, 0, children), lod_base)

\* |_, children| children.is_empty(), splat by splat
without_children(a) ==
    [i \in 1..Len(a.splats) |-> IF i <= Len(a.children) THEN a.children[i] = <<>> ELSE TRUE]

clear_children(a) == [a EXCEPT !.children = <<>>]

\* if options.unlod { .. }: the splats with children are removed; a file
\* without any is skipped; the rest goes on to compute_lod_tree
UlUnlod ==
    /\ ul.pc = "unlod"
    /\ LET a == retain_children(ul.input, without_children(ul.input))
       IN  IF Len(a.splats) = Len(ul.input.splats)
           THEN ul' = [ul EXCEPT !.pc = "skipped"] /\ UNCHANGED bh
           ELSE /\ ul' = [ul EXCEPT !.pc = "lod"]
                /\ bh' = BhInput(clear_children(a).splats, ul.lod_base)
    /\ UNCHANGED <<radVars, ct, tv, ca, qz, bl, lt, pk>>

\* chunk_tree::chunk_tree(&mut splats, 0, ..) on what compute_lod_tree left
UlChunk ==
    /\ ul.pc = "lod"
    /\ bh.pc = "done"
    /\ ul' = [ul EXCEPT !.pc = "chunk"]
    /\ ct' = CtInput(bh.a.children, [i \in 1..Len(bh.a.splats) |-> bh.a.splats[i].center])
    /\ UNCHANGED <<radVars, bh, tv, ca, qz, bl, lt, pk>>

\* RadEncoder::encode: the count and the lodTree flag of the meta, and the
\* child lists that go into the chunks
UlEncode ==
    /\ ul.pc = "chunk"
    /\ ct.pc = "done"
    /\ ul' = [ul EXCEPT !.pc = "written",
                         !.out = [count |-> Len(ct.a.splats),
                                  lod_tree |-> has_lod_tree(ct.a),
                                  children |-> ct.a.children]]
    /\ UNCHANGED besidesUl

UlNext == UlUnlod \/ UlChunk \/ UlEncode \/ BhNext \/ CtNext

SpecUnlod == UlInit /\ [][UlNext]_vars

\* C20: the file written by --unlod holds only the splats that had empty
\* child lists in the input, none of them with children, and its meta has
\* no lodTree flag.
C20_UnlodLeavesOnly ==
    ul.pc = "written" =>
        /\ ul.out.count = Cardinality({i \in 1..Len(ul.input.children) : ul.input.children[i] = <<>>})
        /\ \A i \in 1..Len(ul.out.children) : ul.out.children[i] = <<>>
        /\ ~ul.out.lod_tree


(***************************************************************************)
(* build-lod: main() walks its file arguments and hands each to            *)
(* process_file_lod_tsplat (read, validate, filter, --max-sh, output name, *)
(* --unlod, compute_lod_tree, chunk_tree, RadEncoder).  The runs modelled  *)
(* use --csplat, --bhatt-lod and --rad, and give no crop option.  A file   *)
(* name is the sequence of its parts ("-lod", "." and the extension are    *)
(* parts of their own); a splat carries at most one defective field.  An   *)
(* unwrap() on an Err is a panic: the process ends there.                  *)
(***************************************************************************)
\* largest number of file arguments
MaxFiles == 2

\* largest number of splats in a file given to the tool
MaxFileSplats == 2

FileNames ==
    { <<"a", ".", "ply">>, <<"a", "-lod", ".", "rad">>,
      <<"b", "-lod", ".", "spz">>, <<"a">> }

\* str::rfind for a part of the name
rfind(s, part) ==
    IF \E i \in 1..Len(s) : s[i] = part
    THEN Some(CHOOSE i \in 1..Len(s) : s[i] = part /\ \A j \in (i + 1)..Len(s) : s[j] # part)
    ELSE None

\* String::replace_range(at.., with), at being what rfind answered
replace_range(s, at, with) == SubSeq(s, 1, at[1] - 1) \o with

ends_with(s, suffix) ==
    /\ Len(s) >= Len(suffix)
    /\ SubSeq(s, Len(s) - Len(suffix) + 1, Len(s)) = suffix

\* the field of a splat that is not an ordinary positive finite value
Defects ==
    { [field |-> "none", value |-> "none"],
      [field |-> "center", value |-> "nan"], [field |-> "rgb", value |-> "nan"],
      [field |-> "opacity", value |-> "zero"], [field |-> "opacity", value |-> "nan"],
      [field |-> "opacity", value |-> "inf"],
      [field |-> "scales", value |-> "zero"], [field |-> "scales", value |-> "inf"],
      [field |-> "quaternion", value |-> "zero"], [field |-> "quaternion", value |-> "nan"] }

NoDefect == [field |-> "none", value |-> "none"]

\* f32::is_finite / Vec3A::is_finite / Quat::is_finite on a field
is_finite(splat, field) ==
    ~(splat.defect.field = field /\ splat.defect.value \in {"nan", "inf"})

\* value > 0.0 on opacity(), max_scale() or quaternion().length()
is_positive(splat, field) ==
    IF splat.defect.field = field THEN splat.defect.value = "inf" ELSE TRUE

not_finite_quaternion_only(splat) == ~is_finite(splat, "quaternion")

\* the test of the validation loop
not_finite(splat) ==
    \/ ~is_finite(splat, "center") \/ ~is_finite(splat, "scales")
    \/ ~is_finite(splat, "quaternion") \/ ~is_finite(splat, "opacity")
    \/ ~is_finite(splat, "rgb") \/ ~is_finite(splat, "quaternion")

invalid_count(a) == Cardinality({i \in 1..Len(a.splats) : not_finite(a.splats[i])})

\* the predicate of the first retain
not_empty(splat) ==
    /\ is_positive(splat, "opacity") /\ is_positive(splat, "scales")
    /\ is_finite(splat, "quaternion") /\ is_positive(splat, "quaternion")

\* CsplatArray::set_max_sh_degree
set_max_sh_degree(a, max_sh_degree) ==
    [a EXCEPT !.max_sh_degree = max_sh_degree,
              !.sh3 = IF max_sh_degree < 3 THEN <<>> ELSE @,
              !.sh2 = IF max_sh_degree < 2 THEN <<>> ELSE @,
              !.sh1 = IF max_sh_degree < 1 THEN <<>> ELSE @]

\* the array a decoder leaves for a file: defects[i] is the defect of splat i
FileArray(defects, max_sh_degree, children) ==
    [CsplatArray(Len(defects), max_sh_degree, children) EXCEPT
        !.splats = [i \in 1..Len(defects) |->
                       [center |-> <<i, 0, 0>>, fs |-> 1, w |-> i, defect |-> defects[i]]]]

\* files of sound splats, with and without a LoD tree, of every SH degree
SoundArrays ==
    UNION { { FileArray([i \in 1..n |-> NoDefect], d, children) :
                d \in 0..MAX_SH_DEGREE, children \in {<<>>} \cup Trees(n) } :
            n \in 1..MaxFileSplats }

\* files without SH and without a tree whose splats have any defects
DefectArrays ==
    UNION { { FileArray(defects, 0, <<>>) : defects \in [1..n -> Defects] } :
            n \in 1..MaxFileSplats }

BuildLodOptions(unlod, max_sh, skip_validate, lod_base) ==
    [unlod |-> unlod, max_sh |-> max_sh, skip_validate |-> skip_validate,
     lod_base |-> lod_base]

\* main() after the arguments are parsed: filenames and options
BlStart(filenames, options) ==
    [pc |-> "main", filenames |-> filenames, options |-> options, next |-> 1,
     filename |-> <<>>, input |-> <<>>, a |-> <<>>, output_filename |-> <<>>,
     log |-> <<>>, cause |-> "none"]

BlOthersIdle ==
    /\ RadIdle
    /\ bh = BhIdle
    /\ ct = CtIdle
    /\ tv = TvIdle
    /\ ca = CaIdle
    /\ qz = QzIdle
    /\ ul = UlIdle
    /\ lt = LtIdle
    /\ pk = PkIdle

\* any command line of up to MaxFiles files
BlInit ==
    /\ BlOthersIdle
    /\ \E n \in 1..MaxFiles : \E filenames \in [1..n -> FileNames] :
       \E unlod \in BOOLEAN : \E max_sh \in {None} \cup {Some(d) : d \in 0..MAX_SH_DEGREE} :
          bl = BlStart(filenames, BuildLodOptions(unlod, max_sh, FALSE, <<7, 4>>))

\* one file, with and without --skip-validate
BlInitValidate ==
    /\ BlOthersIdle
    /\ \E skip_validate \in BOOLEAN : \E lod_base \in LodBases :
          bl = BlStart(<< <<"a", ".", "ply">> >>, BuildLodOptions(FALSE, None, skip_validate, lod_base))

\* process_file_lod_tsplat returned: what is on record for the file
BlReturn(result, output) ==
    [bl EXCEPT !.pc = "main",
               !.log = Append(@, [file |-> bl.filename, result |-> result,
                                  output |-> output, input |-> bl.input, a |-> bl.a])]

BlPanic(cause) == [bl EXCEPT !.pc = "panic", !.cause = cause]

\* for filename in filenames { .. }: the -lod.* test, process_file_lod
BlMain ==
    /\ bl.pc = "main"
    /\ IF bl.next > Len(bl.filenames)
       THEN bl' = [bl EXCEPT !.pc = "exit"]
       ELSE LET filename == bl.filenames[bl.next]
                is_lod == \/ ends_with(filename, <<"-lod", ".", "spz">>)
                          \/ ends_with(filename, <<"-lod", ".", "rad">>)
                started == [bl EXCEPT !.next = @ + 1, !.filename = filename,
                                      !.input = <<>>, !.a = <<>>, !.output_filename = <<>>]
            IN  IF is_lod # bl.options.unlod
                THEN bl' = [started EXCEPT !.log = Append(@, [file |-> filename, result |-> "skipped",
                                                    output |-> <<>>, input |-> <<>>, a |-> <<>>])]
                ELSE bl' = [started EXCEPT !.pc = "read"]
    /\ UNCHANGED besidesBl

\* read_file_chunks under MultiDecoder: File::open(..).unwrap(),
\* reader.read(..).unwrap(), decoder.push(..)?, decoder.finish()
BlRead(arrays, faults) ==
    /\ bl.pc = "read"
    /\ \/ \E fault \in faults :
             bl' = IF fault = "decode" THEN BlReturn("decode_failed", <<>>) ELSE BlPanic(fault)
       \/ \E a \in arrays : bl' = [bl EXCEPT !.pc = "prepare", !.input = a, !.a = a]
    /\ UNCHANGED besidesBl

\* let mut output_filename = ..: the extension gives way to "-lod"
lod_filename(filename) ==
    IF rfind(filename, ".") # None
    THEN replace_range(filename, rfind(filename, "."), <<"-lod">>)
    ELSE filename \o <<"-lod">>

\* output_filename.replace_range(output_filename.rfind("-lod").unwrap().., "")
unlod_filename(output_filename) ==
    replace_range(output_filename, rfind(output_filename, "-lod"), <<>>)

\* the filters ahead of the output name: the first retain, --max-sh
filtered(a, options) ==
    LET kept == retain(a, [i \in 1..Len(a.splats) |-> not_empty(a.splats[i])])
    IN  IF options.max_sh # None THEN set_max_sh_degree(kept, options.max_sh[1]) ELSE kept

\* process_file_lod_tsplat from the validation to the end of the --unlod
\* block
BlPrepare ==
    /\ bl.pc = "prepare"
    /\ LET a == filtered(bl.a, bl.options)
           leaves == retain_children(a, without_children(a))
       IN  IF ~bl.options.skip_validate /\ invalid_count(bl.a) > 0
           THEN bl' = BlReturn("invalid", <<>>)
           ELSE IF ~bl.options.unlod
           THEN bl' = [bl EXCEPT !.pc = "build", !.a = a,
                                 !.output_filename = lod_filename(bl.filename)]
           ELSE IF Len(leaves.splats) = Len(a.splats)
           THEN bl' = [BlReturn("no_children", <<>>) EXCEPT !.log[Len(bl.log) + 1].a = leaves]
           ELSE bl' = [bl EXCEPT !.pc = "build", !.a = clear_children(leaves),
                                 !.output_filename = unlod_filename(lod_filename(bl.filename))]
    /\ UNCHANGED besidesBl

\* new_merged reads self.sh1[index] (sh2, sh3) when max_sh_degree says the
\* column is there
sh_row_missing(a) ==
    \/ a.max_sh_degree >= 1 /\ Len(a.sh1) < Len(a.splats)
    \/ a.max_sh_degree >= 2 /\ Len(a.sh2) < Len(a.splats)
    \/ a.max_sh_degree >= 3 /\ Len(a.sh3) < Len(a.splats)

\* bhatt_lod::compute_lod_tree is entered; with two splats or more it
\* merges, and the first new_merged indexes the SH columns
BlBuild ==
    /\ bl.pc = "build"
    /\ IF Len(bl.a.splats) >= 2 /\ sh_row_missing(bl.a)
       THEN bl' = BlPanic("sh_index") /\ UNCHANGED bh
       ELSE /\ bl' = [bl EXCEPT !.pc = "lod"]
            /\ bh' = BhInput(bl.a.splats, bl.options.lod_base)
    /\ UNCHANGED <<radVars, ct, tv, ca, qz, ul, lt, pk>>

\* chunk_tree::chunk_tree(&mut splats, 0, ..): it starts by reading splat 0,
\* which an array left empty by the filters does not have
BlChunk ==
    /\ bl.pc = "lod"
    /\ bh.pc = "done"
    /\ IF bh.a.splats = <<>>
       THEN bl' = BlPanic("root_index") /\ UNCHANGED ct
       ELSE /\ bl' = [bl EXCEPT !.pc = "chunk"]
            /\ ct' = CtInput(bh.a.children, [i \in 1..Len(bh.a.splats) |-> bh.a.splats[i].center])
    /\ UNCHANGED <<radVars, bh, tv, ca, qz, ul, lt, pk>>

\* BuildLodOutput::Rad: File::create(..).unwrap(), encoder.encode(..).unwrap()
BlWrite ==
    /\ bl.pc = "chunk"
    /\ ct.pc = "done"
    /\ \E written \in BOOLEAN :
          bl' = IF written
                THEN BlReturn("written", bl.output_filename \o <<".", "rad">>)
                ELSE BlPanic("write")
    /\ UNCHANGED besidesBl

ToolNext ==
    \/ BlMain \/ BlRead(SoundArrays, {"open", "read", "decode"}) \/ BlPrepare
    \/ BlBuild \/ BlChunk \/ BlWrite \/ BhNext \/ CtNext

SpecTool == BlInit /\ [][ToolNext]_vars

ValidateNext ==
    \/ BlMain \/ BlRead(DefectArrays, {"decode"}) \/ BlPrepare
    \/ BlBuild \/ BlChunk \/ BlWrite \/ BhNext \/ CtNext

SpecValidate == BlInitValidate /\ [][ValidateNext]_vars


\* the files of the log the tool wrote an output for
Written == {k \in 1..Len(bl.log) : bl.log[k].result = "written"}

\* C21: an --unlod run on <name>-lod.<ext> writes <name>.rad, a name
\* without the -lod suffix and different from the name of the input.
C21_UnlodOutputName ==
    bl.options.unlod =>
        \A k \in Written :
            LET input_name == bl.log[k].file
            IN  /\ bl.log[k].output = SubSeq(input_name, 1, Len(input_name) - 3) \o <<".", "rad">>
                /\ bl.log[k].output # input_name

\* the splats of an array that have a non-finite field
NonFinite(a) ==
    IF a = <<>> THEN {}
    ELSE {i \in 1..Len(a.splats) :
            \E field \in {"center", "scales", "quaternion", "opacity", "rgb"} :
                ~is_finite(a.splats[i], field)}

Building == bl.pc \in {"build", "lod", "chunk"}

\* C22: without --skip-validate a file with a non-finite splat is given up
\* before anything is filtered, built or written; with --skip-validate the
\* array that reaches the builder has no splat with a non-finite quaternion.
C22_ValidateOrDrop ==
    IF ~bl.options.skip_validate
    THEN /\ Building => NonFinite(bl.input) = {}
         /\ \A k \in 1..Len(bl.log) :
               NonFinite(bl.log[k].input) # {} =>
                   /\ bl.log[k].result = "invalid"
                   /\ bl.log[k].a = bl.log[k].input
                   /\ bl.log[k].output = <<>>
    ELSE Building => \A i \in 1..Len(bl.a.splats) : is_finite(bl.a.splats[i], "quaternion")

\* a file with a splat whose opacity is not finite was given up
C22_Witness ==
    /\ ~bl.options.skip_validate
    /\ \E k \in 1..Len(bl.log) :
          /\ bl.log[k].result = "invalid"
          /\ \E i \in 1..Len(bl.log[k].input.splats) :
                ~is_finite(bl.log[k].input.splats[i], "opacity")

\* C23: an error on one file ends that file only: when the tool stops,
\* every file of the argument list has been taken up.
C23_RemainingFilesProcessed ==
    bl.pc \in {"exit", "panic"} => bl.next > Len(bl.filenames)

\* C24: after --max-sh=N the SH degree is min(N, degree of the input) and
\* the SH columns present are the bands 1..degree, one row per splat each.
C24_MaxShClamps ==
    (bl.pc = "build" /\ bl.options.max_sh # None) =>
        /\ bl.a.max_sh_degree = Min(bl.options.max_sh[1], bl.input.max_sh_degree)
        /\ Len(bl.a.sh1) = (IF bl.a.max_sh_degree >= 1 THEN Len(bl.a.splats) ELSE 0)
        /\ Len(bl.a.sh2) = (IF bl.a.max_sh_degree >= 2 THEN Len(bl.a.splats) ELSE 0)
        /\ Len(bl.a.sh3) = (IF bl.a.max_sh_degree >= 3 THEN Len(bl.a.splats) ELSE 0)


(***************************************************************************)
(* The merge loop and the pruning of compute_lod_tree, step by step.       *)
(***************************************************************************)
\* the entries a turn of the while-let loop took off the heap
Popped == bh.active \ bh'.active

PopTurn == bh.pc = "pop" /\ bh.active # {} /\ bh'.pc = "pop"

BhReturned == bh.pc \in {"done", "panicked"}

\* the builder under the scheduling of a sequential program: a step that
\* can be taken is taken.  This is WF_vars(BhNext) with ENABLED <<BhNext>>_vars
\* written out as ~BhReturned.
BhFair == []<>BhReturned \/ []<><<BhNext>>_vars

SpecBhattFair == BhInit /\ [][BhNext]_vars /\ BhFair

\* the nodes of the array still active
ActiveNodes == {i \in 0..(Len(bh.a.splats) - 1) : bh.is_active[i + 1]}

\* what holds when the merge loop is left
MergedToRoot ==
    LET n == Len(bh.a.splats)
    IN  /\ bh.frontier = bh.initial_len
        /\ ActiveNodes = {n - 1}
        /\ \A j \in 0..(n - 2) : Occurrences(bh.a.children, j) = 1
        /\ n = 2 * bh.initial_len - 1

\* C26: on a non-empty input the merge loop is left, and when it is left
\* every leaf has entered the frontier, the one node still active is the
\* node appended last, every other node was merged exactly once, and the
\* array holds 2N-1 nodes for N leaves.
C26_MergeLoopTerminates ==
    /\ bh.initial_len > 0 => <>(bh.pc = "prune")
    /\ [](bh.pc = "prune" => MergedToRoot)

\* the loop is left with three leaves merged in two steps
C26_Witness ==
    /\ bh.pc = "prune" /\ bh.initial_len = 3
    /\ Len(bh.a.splats) = 5


\* the step that prunes: bh.a is the merge tree, bh'.to_output the output
\* set and bh'.a the pruned tree
PruneStep == bh.pc = "prune" /\ bh'.pc = "index"

MergeNodes == 0..(Len(bh.a.splats) - 1)

Interior == {i \in MergeNodes : bh.a.children[i + 1] # <<>>}

\* the descendants of node i in the merge tree that are in the output set
Survivors(i) ==
    {d \in Descendants(bh.a.children, {i}) \ {i} : bh'.to_output[d + 1]}

\* importance >= lod_base * max(importance of the surviving descendants)
Outweighs(i) ==
    \A d \in Survivors(i) :
        area_opacity(bh.a.splats[i + 1]) * bh.lod_base[2] >=
            area_opacity(bh.a.splats[d + 1]) * bh.lod_base[1]

\* C27 as stated: every interior node, the root included, is in the output
\* set exactly when it outweighs its surviving descendants.
C27_KeptIffOutweighs ==
    [][PruneStep =>
        /\ \A i \in Interior : bh'.to_output[i + 1] <=> Outweighs(i)
        /\ \A i \in MergeNodes \ Interior : bh'.to_output[i + 1]]_vars

\* C27: an interior node other than the root is in the output set exactly
\* when its importance is at least lod_base times the largest importance
\* among its surviving descendants; the leaves and the root always are.
C27_KeptIffOutweighsBelowRoot ==
    [][PruneStep =>
        /\ \A i \in Interior \ {Len(bh.a.splats) - 1} :
              bh'.to_output[i + 1] <=> Outweighs(i)
        /\ \A i \in MergeNodes \ Interior : bh'.to_output[i + 1]
        /\ bh'.to_output[Len(bh.a.splats)]]_vars

\* pruning has kept an interior node below the root
C27_Witness ==
    /\ bh.pc = "index" /\ bh.indices = <<Len(bh.a.splats) - 1>>
    /\ \E i \in bh.initial_len..(Len(bh.a.splats) - 2) : bh.to_output[i + 1]

\* the kept nodes reached from node i of the merge tree by a downward path
\* that holds no other kept node
RECURSIVE NearestKept(_)
NearestKept(i) ==
    UNION { IF bh'.to_output[c + 1] THEN {c} ELSE NearestKept(c) :
            c \in {bh.a.children[i + 1][k] : k \in 1..Len(bh.a.children[i + 1])} }

ChildSet(children, i) == {children[i + 1][k] : k \in 1..Len(children[i + 1])}

\* C28: after pruning the child list of a kept interior node is the set of
\* its nearest kept descendants in the merge tree, a dropped node has an
\* empty child list, and every input leaf still descends from the root.
C28_NearestKeptChildren ==
    [][PruneStep =>
        /\ \A i \in Interior :
              IF bh'.to_output[i + 1]
              THEN /\ ChildSet(bh'.a.children, i) = NearestKept(i)
                   /\ Len(bh'.a.children[i + 1]) = Cardinality(NearestKept(i))
              ELSE bh'.a.children[i + 1] = <<>>
        /\ 0..(bh.initial_len - 1) \subseteq
              Descendants(bh'.a.children, {Len(bh.a.splats) - 1})]_vars

\* pruning has dropped a node, whose children went to the root's list
C28_Witness ==
    /\ bh.pc = "index" /\ bh.indices = <<Len(bh.a.splats) - 1>>
    /\ \E i \in bh.initial_len..(Len(bh.a.splats) - 2) : ~bh.to_output[i + 1]
    /\ Len(bh.a.children[Len(bh.a.splats)]) = 3

(***************************************************************************)
(* The order chunk_tree lays the nodes out in, on trees whose nodes carry  *)
(* feature sizes.                                                          *)
(***************************************************************************)
\* the feature sizes the nodes are given: the powers of SLICE_FACTOR
FeatureSizes == {1, 3, 9}

\* SLICE_FACTOR (chunk_tree.rs:14)
SLICE_FACTOR == 3

\* no child is larger than its parent, as in a tree of merged splats
SizedTrees(children) ==
    { sizes \in [1..Len(children) -> FeatureSizes] :
        \A j \in 1..Len(children) : \A k \in 1..Len(children[j]) :
            sizes[children[j][k] + 1] <= sizes[j] }

\* chunk_tree(splats, 0, ..) on splats of the given feature sizes
CtInputSized(children, layout, sizes) ==
    [CtInput(children, layout) EXCEPT
        !.a.splats = [i \in 1..Len(children) |-> Splat(layout[i], sizes[i], 1)]]

CtInitSized ==
    /\ RadIdle
    /\ bh = BhIdle
    /\ tv = TvIdle
    /\ ca = CaIdle
    /\ qz = QzIdle
    /\ ul = UlIdle
    /\ bl = BlIdle
    /\ lt = LtIdle
    /\ pk = PkIdle
    /\ \E n \in 1..MaxTreeNodes : \E children \in Trees(n) :
       \E layout \in Layouts(n) : \E sizes \in SizedTrees(children) :
          ct = CtInputSized(children, layout, sizes)

SpecChunkSized == CtInitSized /\ [][CtNext]_vars

\* how often the size limit, starting at the root's feature size, has to be
\* divided by SLICE_FACTOR before the node at index i reaches it
Slab(i) ==
    LET fs == feature_size(ct.a.splats[i + 1])
        root == feature_size(ct.a.splats[1])
    IN  CHOOSE k \in 0..Cardinality(FeatureSizes) :
            /\ fs * SLICE_FACTOR ^ k >= root
            /\ \A j \in 0..(k - 1) : fs * SLICE_FACTOR ^ j < root

\* the nodes of the laid-out tree that were expanded
Expanded == {i \in 0..(Len(ct.a.splats) - 1) : ct.a.children[i + 1] # <<>>}

\* the first index given to the children of an expanded node: a node
\* expanded later has the larger one
ExpandedAt(i) == ct.a.children[i + 1][1]

\* C29: chunk_tree expands a frontier node only while its feature size is at
\* least the size limit, which starts at the root's feature size and is
\* divided by 3 only when no frontier node reaches it: no node is expanded
\* while a node that already has its index and needs fewer divisions of the
\* limit is still waiting to be expanded.
C29_SizeLimitOrder ==
    ct.pc = "done" =>
        \A x \in Expanded : \A y \in Expanded :
            (x < ExpandedAt(y) /\ ExpandedAt(y) < ExpandedAt(x)) =>
                Slab(y) <= Slab(x)

\* the multiples of BATCH_SIZE a children range [lo, hi] crosses
Crossed(lo, hi) == {m \in (lo + 1)..hi : m % BATCH_SIZE = 0}

\* the index range of the children of the node at index i
ChildRange(i) ==
    LET c == ct.a.children[i + 1]
        cs == {c[k] : k \in 1..Len(c)}
    IN  [lo |-> CHOOSE lo \in cs : \A x \in cs : lo <= x,
         hi |-> CHOOSE hi \in cs : \A x \in cs : x <= hi]

\* C30: filling stops at the batch boundary: no parent's children are given
\* an index range that crosses a multiple of BATCH_SIZE.
C30_NoRangeCrossesBatch ==
    ct.pc = "done" =>
        \A i \in Expanded :
            Crossed(ChildRange(i).lo, ChildRange(i).hi) = {}

\* C30 as the code has it: the children of a parent cross a multiple of
\* BATCH_SIZE only when their range begins fewer than MIN_BATCH_SIZE
\* indices below it, and they cross one multiple at most.
C30_RangeCrossesOnlyNearBatchEnd ==
    ct.pc = "done" =>
        \A i \in Expanded :
            LET r == ChildRange(i)
            IN  /\ \A m \in Crossed(r.lo, r.hi) : r.lo > m - MIN_BATCH_SIZE
                /\ Cardinality(Crossed(r.lo, r.hi)) <= 1

C30_Witness ==
    /\ ct.pc = "done"
    /\ ct.split
    /\ \E i \in Expanded :
          Crossed(ChildRange(i).lo, ChildRange(i).hi) # {}
    /\ \E i \in Expanded :
          /\ Len(ct.a.children[i + 1]) >= 2
          /\ Crossed(ChildRange(i).lo, ChildRange(i).hi) = {}

(***************************************************************************)
(* The traversal, step by step.                                            *)
(***************************************************************************)
\* the (inst_index, paged_index) pairs of the entries of a frontier
FrontierPairs(frontier) == {<<e[2], e[3]>> : e \in frontier}

\* the top of the frontier has children, and replacing it by them would
\* exceed max_splats
OverBudget ==
    /\ tv.pc = "loop"
    /\ tv.frontier # {}
    /\ IF TvTopSplat.child_count = 0 THEN FALSE ELSE new_num_splats > tv.max_splats

\* C31: when the top of the frontier has children and replacing it by them
\* would exceed max_splats, the traversal ends with the next step: that node
\* and every other entry of the frontier are emitted, nothing emitted before
\* is lost, and a traversal that has ended takes no further step.
C31_BudgetStopDrains ==
    [][/\ tv.pc # "done"
       /\ OverBudget =>
            /\ tv'.pc = "done"
            /\ tv'.frontier = {}
            /\ tv'.num_splats = tv.num_splats
            /\ Len(tv'.output) = Len(tv.output) + Cardinality(tv.frontier)
            /\ SubSeq(tv'.output, 1, Len(tv.output)) = tv.output
            /\ {tv'.output[k] : k \in 1..Len(tv'.output)}
                  = Emitted \cup FrontierPairs(tv.frontier)]_vars

C31_Witness ==
    /\ tv.pc = "done"
    /\ tv.budget_stop
    /\ tv.num_splats > tv.num_instances
    /\ tv.num_instances >= 2
    /\ Len(tv.output) >= 3

\* the chunks that hold a child of the splat
ChildChunks(splat) ==
    {child \div PAGE_SPAN :
        child \in splat.child_start..(splat.child_start + splat.child_count - 1)}

\* chunk_to_page has no page for the chunk
Missing(chunk) ==
    IF chunk + 1 > Len(tv.chunk_to_page) THEN TRUE
    ELSE tv.chunk_to_page[chunk + 1] = NOT_RESIDENT

\* the top of the frontier is popped as a parent: it is above the limit, has
\* children, and they fit into max_splats
PoppedParent ==
    /\ tv.pc = "loop"
    /\ tv.frontier # {}
    /\ IF within_limit(TvTop[1], tv.pixel_scale_limit) THEN FALSE
       ELSE IF TvTopSplat.child_count = 0 THEN FALSE
       ELSE new_num_splats <= tv.max_splats

NoDuplicates(s) == \A j \in 1..Len(s) : \A k \in 1..Len(s) : s[j] = s[k] => j = k

\* C32: when a parent is popped and some chunk holding one of its children
\* is not resident, the parent is emitted, none of its children is emitted
\* or put on the frontier, and every chunk holding one of its children is in
\* the touched output, which names no chunk twice.
C32_StandInTouchesChildChunks ==
    [][(PoppedParent /\ \E chunk \in ChildChunks(TvTopSplat) : Missing(chunk)) =>
          /\ tv'.output = Append(tv.output, <<TvTop[2], TvTop[3]>>)
          /\ tv'.frontier = tv.frontier \ {TvTop}
          /\ tv'.num_splats = tv.num_splats
          /\ \A chunk \in ChildChunks(TvTopSplat) :
                \E k \in 1..Len(tv'.touched) : tv'.touched[k] = chunk
          /\ NoDuplicates(tv'.touched)
          /\ SubSeq(tv'.touched, 1, Len(tv.touched)) = tv.touched]_vars

C32_Witness ==
    /\ tv.pc = "done"
    /\ ~tv.budget_stop
    /\ \E k \in 1..Len(tv.touched) : Missing(tv.touched[k])
    /\ \E e \in Emitted :
          /\ Cardinality(ChildChunks(tv.splats[e[2]])) = 2
          /\ \E chunk \in ChildChunks(tv.splats[e[2]]) : Missing(chunk)
          /\ \A chunk \in ChildChunks(tv.splats[e[2]]) :
                \E k \in 1..Len(tv.touched) : tv.touched[k] = chunk

(***************************************************************************)
(* Residency of a LoD tree in the worker state: init_lod_tree and          *)
(* update_lod_trees keep page_to_chunk, chunk_to_page and the paged splat  *)
(* store; a traversal then runs on what they left.  The trees fill their   *)
(* chunks, and a loaded chunk brings the splats of that chunk.             *)
(***************************************************************************)
\* pages are numbered 0..(MaxPage - 1)
MaxPage == 2

\* update_lod_trees entries applied to a tree
MaxUpdates == 2

\* Vec::resize(len, value), which only ever grows here
resize(s, len, value) ==
    IF len > Len(s) THEN s \o [i \in 1..(len - Len(s)) |-> value] ELSE s

\* the state init_lod_tree(num_splats, lod_tree) leaves: pages and chunks
\* are mapped one to one, every page holds the splats of its chunk
init_lod_tree(t) ==
    [pc |-> "live", tree |-> t,
     page_to_chunk |-> [page \in 1..LodChunks(Len(t)) |-> page - 1],
     chunk_to_page |-> [chunk \in 1..LodChunks(Len(t)) |-> chunk - 1],
     held |-> [page \in 1..LodChunks(Len(t)) |-> page - 1],
     updates |-> 0]

\* one entry of update_lod_trees: `pages` pages from base_page on take the
\* chunks from base_chunk on (lod_tree_data given), or are given up
update_lod_tree(l, base_page, base_chunk, pages, load) ==
    LET p2c == resize(l.page_to_chunk, base_page + pages, NOT_RESIDENT)
        c2p == resize(l.chunk_to_page, base_chunk + pages, NOT_RESIDENT)
    IN  [l EXCEPT
            !.page_to_chunk =
                [page \in 1..Len(p2c) |->
                    IF page - 1 \in base_page..(base_page + pages - 1)
                    THEN IF load THEN base_chunk + (page - 1 - base_page) ELSE NOT_RESIDENT
                    ELSE p2c[page]],
            !.chunk_to_page =
                [chunk \in 1..Len(c2p) |->
                    IF chunk - 1 \in base_chunk..(base_chunk + pages - 1)
                    THEN IF load THEN base_page + (chunk - 1 - base_chunk) ELSE NOT_RESIDENT
                    ELSE c2p[chunk]],
            !.held =
                IF load
                THEN [page \in 1..Len(resize(l.held, base_page + pages, NOT_RESIDENT)) |->
                        IF page - 1 \in base_page..(base_page + pages - 1)
                        THEN base_chunk + (page - 1 - base_page)
                        ELSE resize(l.held, base_page + pages, NOT_RESIDENT)[page]]
                ELSE l.held,
            !.updates = @ + 1]

\* the trees of one or two full chunks
LtInit ==
    /\ RadIdle
    /\ bh = BhIdle
    /\ ct = CtIdle
    /\ tv = TvIdle
    /\ ca = CaIdle
    /\ qz = QzIdle
    /\ ul = UlIdle
    /\ bl = BlIdle
    /\ pk = PkIdle
    /\ \E chunks \in 1..2 : \E t \in LodTrees(chunks * PAGE_SPAN) : lt = init_lod_tree(t)

\* update_lod_trees with one entry, on chunks of the tree
LtUpdate ==
    /\ lt.pc = "live"
    /\ tv = TvIdle
    /\ lt.updates < MaxUpdates
    /\ \E base_page \in 0..(MaxPage - 1) : \E base_chunk \in 0..(LodChunks(Len(lt.tree)) - 1) :
       \E pages \in 1..(LodChunks(Len(lt.tree)) - base_chunk) : \E load \in BOOLEAN :
          /\ base_page + pages <= MaxPage
          /\ lt' = update_lod_tree(lt, base_page, base_chunk, pages, load)
    /\ UNCHANGED besidesLt

SpecResidency == LtInit /\ [][LtUpdate]_vars

\* the splat store as the traversal reads it: a page holds the splats of the
\* chunk last loaded into it, or default splats
HeldSplats(t, held) ==
    [p \in 0..(Len(held) * PAGE_SPAN - 1) |->
        IF held[(p \div PAGE_SPAN) + 1] = NOT_RESIDENT THEN LodSplat(0, 0)
        ELSE t[held[(p \div PAGE_SPAN) + 1] * PAGE_SPAN + (p % PAGE_SPAN) + 1]]

\* new_traverse_lod_trees is called on the tree as it is
TvCall ==
    /\ lt.pc = "live"
    /\ tv = TvIdle
    /\ \E n \in 1..MaxInstances : \E max_splats \in 1..MaxBudget :
       \E limit \in PixelScaleLimits :
          tv' = [TvInput(n, max_splats, limit, lt.tree, lt.chunk_to_page)
                    EXCEPT !.splats = HeldSplats(lt.tree, lt.held)]
    /\ UNCHANGED <<radVars, bh, ct, ca, qz, ul, bl, lt, pk>>

TvResidentNext == LtUpdate \/ TvCall \/ TvNext

SpecTraverseResident == LtInit /\ [][TvResidentNext]_vars

\* the maps name each other: page p is given chunk c exactly when chunk c
\* is given page p
MutuallyInverse(p2c, c2p) ==
    /\ \A p \in 1..Len(p2c) :
          p2c[p] # NOT_RESIDENT =>
              /\ p2c[p] + 1 <= Len(c2p)
              /\ c2p[p2c[p] + 1] = p - 1
    /\ \A c \in 1..Len(c2p) :
          c2p[c] # NOT_RESIDENT =>
              /\ c2p[c] + 1 <= Len(p2c)
              /\ p2c[c2p[c] + 1] = c - 1

\* C35: after any sequence of update_lod_trees entries on a tree,
\* page_to_chunk and chunk_to_page are mutually inverse partial maps.
C35_MapsMutuallyInverse ==
    lt.pc = "live" => MutuallyInverse(lt.page_to_chunk, lt.chunk_to_page)

\* the node whose splat the store holds at a paged index
NodeOf(paged_index) ==
    lt.held[(paged_index \div PAGE_SPAN) + 1] * PAGE_SPAN + (paged_index % PAGE_SPAN)

LodParent(t, node) == CHOOSE parent \in 0..(Len(t) - 1) : node \in LodChildren(t, parent)

RECURSIVE LodAncestors(_, _)
\* the node and its ancestors up to the root
LodAncestors(t, node) ==
    IF node = 0 THEN {0} ELSE {node} \cup LodAncestors(t, LodParent(t, node))

LodLeaves(t) == {node \in 0..(Len(t) - 1) : t[node + 1].child_count = 0}

\* the places in the output where instance i has a node of the set emitted
EmittedAt(i, nodes) ==
    {k \in 1..Len(tv.output) : tv.output[k][1] = i /\ NodeOf(tv.output[k][2]) \in nodes}

\* what instance i has emitted is a cut of the tree
Cut(i) ==
    /\ \A j \in EmittedAt(i, 0..(Len(lt.tree) - 1)) : \A k \in EmittedAt(i, 0..(Len(lt.tree) - 1)) :
          j # k => NodeOf(tv.output[j][2]) \notin LodAncestors(lt.tree, NodeOf(tv.output[k][2]))
    /\ \A leaf \in LodLeaves(lt.tree) :
          Cardinality(EmittedAt(i, LodAncestors(lt.tree, leaf))) = 1

\* C34: whatever the residency state, what a traversal emits for an instance
\* is a cut of the tree (no node twice, no node together with one of its
\* ancestors, every leaf under exactly one emitted node), and during the
\* loop num_splats is the number of frontier entries plus emitted nodes.
C34_EmittedIsCut ==
    /\ tv.pc = "loop" => tv.num_splats = Cardinality(tv.frontier) + Len(tv.output)
    /\ tv.pc = "done" => \A i \in 0..(tv.num_instances - 1) : Cut(i)

\* the same on the residency states whose maps are mutually inverse and
\* have chunk 0 resident
C34_EmittedIsCutOnInverseMaps ==
    (/\ tv.pc \in {"loop", "done"}
     /\ MutuallyInverse(lt.page_to_chunk, lt.chunk_to_page)
     /\ lt.chunk_to_page[1] # NOT_RESIDENT) => C34_EmittedIsCut

\* the frontier entries whose pixel scale a step has computed
NewlyComputed == tv'.computed \ tv.computed

\* C37: the splat of a child is read only through a resident mapping: each
\* child whose pixel scale a step computes is a child of the popped parent
\* whose chunk has an entry in chunk_to_page other than NOT_RESIDENT, and is
\* read at the page of that entry; the children of a parent lie in at most
\* two chunks, those of the first and of the last child.
C37_ChildrenReadThroughResidentMap ==
    [][tv.pc = "loop" =>
          /\ \A c \in NewlyComputed :
                \E child \in LodChildrenOfTop :
                    /\ ~Missing(child \div PAGE_SPAN)
                    /\ c[3] = paged(tv.chunk_to_page[(child \div PAGE_SPAN) + 1], child)
          /\ NewlyComputed # {} =>
                /\ Cardinality(ChildChunks(TvTopSplat)) <= 2
                /\ ChildChunks(TvTopSplat) = {first_chunk, last_chunk}]_vars

C37_Witness ==
    /\ tv.pc = "done"
    /\ \E parent \in DOMAIN tv.splats :
          /\ Cardinality(ChildChunks(tv.splats[parent])) = 2
          /\ \A child \in tv.splats[parent].child_start..
                          (tv.splats[parent].child_start + tv.splats[parent].child_count - 1) :
                \E c \in tv.computed :
                    c[3] = paged(tv.chunk_to_page[(child \div PAGE_SPAN) + 1], child)
    /\ tv.num_splats > tv.num_instances

(***************************************************************************)
(* Two traversal calls with the same arguments, one after the other, on    *)
(* the worker state the first one leaves behind.                           *)
(***************************************************************************)
\* the entry of a call on a worker state that has not run a traversal yet
TvTwiceInit ==
    /\ RadIdle
    /\ bh = BhIdle
    /\ ct = CtIdle
    /\ ca = CaIdle
    /\ qz = QzIdle
    /\ ul = UlIdle
    /\ bl = BlIdle
    /\ lt = LtIdle
    /\ pk = PkIdle
    /\ \E n \in 0..MaxInstances : \E max_splats \in {MaxBudget} :
       \E limit \in PixelScaleLimits : \E k \in 1..MaxLodNodes :
       \E t \in LodTrees(k) : \E c2p \in ChunkToPage(k) :
          tv = [TvInput(n, max_splats, limit, t, c2p) EXCEPT !.pc = "entry"]

\* (mutation) output is not cleared
TvEntry_output_kept ==
    /\ tv.pc = "entry"
    /\ tv' = [tv EXCEPT !.pc = "seed", !.num_splats = 0, !.frontier = {},
                         !.touched = <<>>,
                         !.computed = {}, !.budget_stop = FALSE]
    /\ UNCHANGED besidesTv

\* num_splats = 0; frontier, output, touched and touched_set are cleared
TvEntry ==
    /\ tv.pc = "entry"
    /\ tv' = [tv EXCEPT !.pc = "seed", !.num_splats = 0, !.frontier = {},
                         !.output = <<>>, !.touched = <<>>,
                         !.computed = {}, !.budget_stop = FALSE]
    /\ UNCHANGED besidesTv

\* the call has returned; it is made again with the same arguments, so the
\* pixel scales are those the first call saw
TvAgain ==
    /\ tv.pc = "done"
    /\ tv.call = 1
    /\ tv' = [tv EXCEPT !.pc = "entry", !.call = 2, !.view = tv.computed,
                         !.first = [output |-> tv.output, touched |-> tv.touched]]
    /\ UNCHANGED besidesTv

TvTwiceNext == TvEntry \/ TvAgain \/ TvNext

SpecTraverseTwice == TvTwiceInit /\ [][TvTwiceNext]_vars

\* C38: a traversal changes neither the node data nor the residency map,
\* and a call made again with the same arguments on the state the first
\* call left returns the same emitted indices and the same touched chunks.
C38_SameCallSameResult ==
    [][/\ tv'.splats = tv.splats
       /\ tv'.chunk_to_page = tv.chunk_to_page
       /\ tv'.tree = tv.tree
       /\ (tv'.pc = "done" /\ tv'.call = 2) =>
             /\ tv'.output = tv'.first.output
             /\ tv'.touched = tv'.first.touched]_vars

C38_Witness ==
    /\ tv.pc = "done"
    /\ tv.call = 2
    /\ Len(tv.output) >= 3
    /\ Len(tv.touched) >= 2
    /\ tv.num_splats > tv.num_instances
    /\ tv.output = tv.first.output

(***************************************************************************)
(* permute on its own, one call after another.                             *)
(***************************************************************************)
\* the arrays of CaInit without SH columns or with all three
CaInitPermute ==
    /\ RadIdle
    /\ bh = BhIdle
    /\ ct = CtIdle
    /\ tv = TvIdle
    /\ qz = QzIdle
    /\ ul = UlIdle
    /\ bl = BlIdle
    /\ lt = LtIdle
    /\ pk = PkIdle
    /\ \E n \in 0..MaxRows : \E max_sh_degree \in {0, MAX_SH_DEGREE} :
       \E children \in {<<>>} \cup (IF n = 0 THEN {} ELSE Trees(n)) :
          ca = CaInput(CsplatArray(n, max_sh_degree, children))

SpecPermute == CaInitPermute /\ [][CaPermute]_vars

\* column `new` is column `old` permuted by index_map, or both are absent
Permuted(new, old, index_map) ==
    IF old = <<>> THEN new = <<>>
    ELSE /\ Len(new) = Len(old)
         /\ \A i \in 1..Len(new) : new[i] = old[index_map[i] + 1]

\* C33: for an index_map that is a permutation of 0..n-1, compute_swaps
\* returns a list of fewer than n swaps (none for n = 0), and permute leaves
\* new[i] = old[index_map[i]] in every column that is present: the splats,
\* the child lists and the three SH columns.
C33_PermuteByIndexMap ==
    ca.op = "permute" =>
        /\ Len(compute_swaps(ca.index_map)) <= Len(ca.index_map)
        /\ Len(ca.index_map) > 0 => Len(compute_swaps(ca.index_map)) < Len(ca.index_map)
        /\ Permuted(ca.a.splats, ca.before.splats, ca.index_map)
        /\ Permuted(ca.a.children, ca.before.children, ca.index_map)
        /\ Permuted(ca.a.sh1, ca.before.sh1, ca.index_map)
        /\ Permuted(ca.a.sh2, ca.before.sh2, ca.index_map)
        /\ Permuted(ca.a.sh3, ca.before.sh3, ca.index_map)

C33_Witness ==
    /\ ca.op = "permute"
    /\ ca.nops = 2
    /\ Len(ca.index_map) = MaxRows
    /\ \A i \in 1..MaxRows : ca.index_map[i] # i - 1
    /\ ca.a.children # <<>>
    /\ ca.a.sh3 # <<>>
    /\ ca.a.splats # ca.before.splats

(***************************************************************************)
(* Progress of the loop over the batches of chunk_tree.                    *)
(***************************************************************************)
\* the batches a turn of the loop has put at the back of the queue
FollowUps == SubSeq(ct'.batches, Len(ct.batches), Len(ct'.batches))

\* a child list has at most 65535 entries, one below the batch size
ValidTree(tree) == \A i \in 1..Len(tree) : Len(tree[i]) <= BATCH_SIZE - 1

\* C36: chunk_tree terminates on every valid tree: each batch taken from
\* the queue gives at least one new index, or is put back only as batches
\* that are each strictly smaller than it.
C36_BatchProgress ==
    [][(ct.pc = "loop" /\ ct.batches # <<>> /\ ValidTree(ct.tree)) =>
          \/ Len(ct'.indices) > Len(ct.indices)
          \/ \A k \in 1..Len(FollowUps) : Len(FollowUps[k]) < Len(Head(ct.batches))]_vars

\* the loop over the batches is left once it has been entered, if it keeps
\* taking turns
ChunkTreeFair == []<>(ct.pc # "loop") \/ []<><<CtNext>>_vars

SpecChunkFair == CtInit /\ [][CtNext]_vars /\ ChunkTreeFair

ChunkTreeReturns == ValidTree(ct.tree) => <>(ct.pc # "loop")

(***************************************************************************)
(* The child setters of CsplatArray, as the RAD decoder and set_batch call *)
(* them: one window of the array, the two setters in either order.         *)
(***************************************************************************)
\* largest child_start handed in
MaxChildStart == 3

\* CsplatArray::set_child_count on the child lists
set_child_count(children, base, count, child_count) ==
    [i \in 1..Len(children) |->
        IF i - 1 \in base..(base + count - 1)
        THEN LET child_index == IF children[i] = <<>> THEN 0 ELSE children[i][1]
             IN  [k \in 1..child_count[i - base] |-> child_index + k - 1]
        ELSE children[i]]

\* CsplatArray::set_child_start on the child lists
set_child_start(children, base, count, child_start) ==
    [i \in 1..Len(children) |->
        IF i - 1 \in base..(base + count - 1)
        THEN IF child_start[i - base] = 0 THEN <<>>
             ELSE [k \in 1..Max(Len(children[i]), 1) |-> child_start[i - base] + k - 1]
        ELSE children[i]]

\* an array of one or two nodes without children, a window of it, the
\* columns to set and the setter that is called first
CsInit ==
    /\ RadIdle
    /\ bh = BhIdle
    /\ ct = CtIdle
    /\ tv = TvIdle
    /\ qz = QzIdle
    /\ ul = UlIdle
    /\ bl = BlIdle
    /\ lt = LtIdle
    /\ pk = PkIdle
    /\ \E n \in 1..2 : \E base \in 0..(n - 1) : \E count \in 1..(n - base) :
       \E child_count \in [1..count -> 0..MaxChildCount] :
       \E child_start \in [1..count -> 0..MaxChildStart] :
       \E first \in {"count", "start"} :
          ca = [pc |-> "set", children |-> [i \in 1..n |-> <<>>],
                base |-> base, count |-> count,
                child_count |-> child_count, child_start |-> child_start,
                first |-> first, calls |-> 0]

CsCountIsNext == (ca.first = "count") = (ca.calls = 0)

CsSetChildCount ==
    /\ ca.pc = "set"
    /\ ca.calls < 2
    /\ CsCountIsNext
    /\ ca' = [ca EXCEPT !.calls = @ + 1,
                        !.children = set_child_count(@, ca.base, ca.count, ca.child_count)]
    /\ UNCHANGED besidesCa

CsSetChildStart ==
    /\ ca.pc = "set"
    /\ ca.calls < 2
    /\ ~CsCountIsNext
    /\ ca' = [ca EXCEPT !.calls = @ + 1,
                        !.children = set_child_start(@, ca.base, ca.count, ca.child_start)]
    /\ UNCHANGED besidesCa

CsNext == CsSetChildCount \/ CsSetChildStart

SpecChildSetters == CsInit /\ [][CsNext]_vars

\* the child list [s, s + 1, ..., s + c - 1]
ChildRun(s, c) == [k \in 1..c |-> s + k - 1]

\* the nodes of the window have the child lists their columns describe
ChildListsSet ==
    \A i \in 1..ca.count :
        ca.children[ca.base + i] = ChildRun(ca.child_start[i], ca.child_count[i])

\* C40: on nodes without children, set_child_count(c) and
\* set_child_start(s) in either order leave the child list
\* [s, ..., s + c - 1], the empty list for c = 0.
C40_ChildSettersCommute ==
    (ca.pc = "set" /\ ca.calls = 2) => ChildListsSet

\* the same on the columns the encoder writes: child_start is 0 exactly
\* for the nodes without children
C40_ChildSettersCommuteOnEncoded ==
    (/\ ca.pc = "set"
     /\ ca.calls = 2
     /\ \A i \in 1..ca.count : (ca.child_count[i] = 0) = (ca.child_start[i] = 0))
        => ChildListsSet

(***************************************************************************)
(* PackedSplatsData of the worker: the packed array, the SH arrays and the *)
(* write-back buffer every setter and getter goes through.  A splat of     *)
(* the packed array is four words holding five columns; the k-th write of  *)
(* a behaviour writes the value k, so that a reader tells the writes       *)
(* apart.  pk.direct is the array the same writes give when they are       *)
(* applied to it directly.                                                 *)
(***************************************************************************)
\* splats of the array
MaxPacked == 2

\* setter calls of one behaviour
MaxWrites == 2

\* the columns packed into the four words of a splat
Fields == {"center", "opacity", "rgb", "scale", "quat"}

\* a splat of a new array
ZeroSplat == [f \in Fields |-> 0]

\* four words of the buffer that hold SH words
Foreign == [f \in Fields |-> -1]

\* words of one splat in the array of SH degree d
ShWords(d) == IF d = 1 THEN 2 ELSE 4

\* the windows (base, count) of an array of n splats that read or write
Windows(n) == {w \in (0..(n - 1)) \X (1..n) : w[1] + w[2] <= n}

\* Vec::resize
vec_resize(s, len, value) == [i \in 1..len |-> IF i <= Len(s) THEN s[i] ELSE value]

\* values copied over the window (base, count) of an array
copy_from(array, base, count, values) ==
    [i \in 1..Len(array) |->
        IF i - 1 \in base..(base + count - 1) THEN values[i - base] ELSE array[i]]

ensure_buffer(p, count) == [p EXCEPT !.buffer = vec_resize(@, count, ZeroSplat)]

flush_buffer(p) ==
    IF p.buffer_dirty
    THEN [p EXCEPT !.packed = copy_from(@, p.buffer_base, p.buffer_count, p.buffer),
                   !.buffer_dirty = FALSE]
    ELSE p

invalidate_buffer(p) ==
    [flush_buffer(p) EXCEPT !.buffer_base = 0, !.buffer_count = 0, !.buffer_dirty = FALSE]

prepare_buffer(p, base, count) ==
    IF p.buffer_base # base \/ p.buffer_count # count
    THEN LET q == ensure_buffer(flush_buffer(p), count)
         IN  [q EXCEPT !.buffer = [i \in 1..count |-> q.packed[base + i]],
                       !.buffer_base = base,
                       !.buffer_count = count,
                       !.buffer_dirty = FALSE]
    ELSE p

\* encode_packed_splat_center, _opacity, _rgb, _rgba, _scale, _quat and
\* encode_packed_splat: the words of a splat with the columns cols rewritten
encode_packed_splat(words, cols, value) ==
    [f \in Fields |-> IF f \in cols THEN value ELSE words[f]]

\* set_center, set_opacity, set_rgb, set_rgba, set_scale, set_quat: the
\* columns cols of the window written through the buffer
set_columns(p, base, count, cols, value) ==
    LET q == prepare_buffer(p, base, count)
    IN  [q EXCEPT !.buffer = [i \in 1..Len(@) |->
                                 IF i <= count THEN encode_packed_splat(@[i], cols, value)
                                 ELSE @[i]],
                  !.buffer_dirty = TRUE]

\* set_sh1, set_sh2, set_sh3: the buffer is given up and used to encode
\* the window of the SH array of degree d
set_sh(p, base, count, d, value) ==
    LET q == ensure_buffer(invalidate_buffer(p), count)
    IN  IF q.sh[d] = <<>> THEN q
        ELSE [q EXCEPT !.buffer = [i \in 1..Len(@) |->
                                      IF 4 * (i - 1) < ShWords(d) * count THEN Foreign ELSE @[i]],
                       !.sh[d] = copy_from(@, base, count, [i \in 1..count |-> value])]

\* PackedSplatsData::set_child_count and set_child_start on their column
set_child_column(column, len, base, count, value) ==
    copy_from(IF column = <<>> THEN [i \in 1..len |-> 0] ELSE column,
              base, count, [i \in 1..count |-> value])

\* set_batch with the columns cols, all SH columns when sh, and the child
\* columns asked for.  With all five columns the splats are encoded in one
\* pass, otherwise by the setter of each column: the same words either way.
set_batch(p, base, count, shape, value) ==
    LET q  == set_columns(p, base, count, shape.cols, value)
        s1 == IF shape.sh THEN set_sh(q, base, count, 1, value) ELSE q
        s2 == IF shape.sh THEN set_sh(s1, base, count, 2, value) ELSE s1
        s3 == IF shape.sh THEN set_sh(s2, base, count, 3, value) ELSE s2
    IN  [s3 EXCEPT !.child_counts = IF shape.child_count
                                    THEN set_child_column(@, p.num_splats, base, count, value)
                                    ELSE @,
                   !.child_starts = IF shape.child_start
                                    THEN set_child_column(@, p.num_splats, base, count, value)
                                    ELSE @]

\* PackedSplatsData::finish; its scratch use of the buffer is not kept
packed_finish(p) ==
    LET q == invalidate_buffer(p)
    IN  IF q.child_counts = <<>> /\ q.child_starts = <<>>
        THEN [q EXCEPT !.buffer = <<>>, !.finished = "ok"]
        ELSE IF q.child_counts = <<>> \/ q.child_starts = <<>>
        THEN [q EXCEPT !.finished = "err"]
        ELSE [q EXCEPT !.lod_tree = [i \in 1..q.num_splats |->
                                        [center |-> q.packed[i].center,
                                         opacity |-> q.packed[i].opacity,
                                         scale |-> q.packed[i].scale,
                                         child_count |-> q.child_counts[i],
                                         child_start |-> q.child_starts[i]]],
                       !.child_counts = <<>>,
                       !.child_starts = <<>>,
                       !.buffer = <<>>,
                       !.finished = "ok"]

\* the writes applied to the arrays themselves
direct_columns(d, base, count, cols, value) ==
    [d EXCEPT !.packed = copy_from(@, base, count,
                            [i \in 1..count |-> encode_packed_splat(@[base + i], cols, value)])]

direct_sh(d, base, count, degrees, value) ==
    [d EXCEPT !.sh = [k \in 1..MAX_SH_DEGREE |->
                         IF k \in degrees /\ @[k] # <<>>
                         THEN copy_from(@[k], base, count, [i \in 1..count |-> value])
                         ELSE @[k]]]

\* PackedSplatsData::new and init_splats without a LoD tree
PkInput(n, max_sh_degree) ==
    LET sh == [k \in 1..MAX_SH_DEGREE |->
                  IF max_sh_degree < k THEN <<>> ELSE [i \in 1..n |-> 0]]
        packed == [i \in 1..n |-> ZeroSplat]
    IN  [pc |-> "open", num_splats |-> n, max_sh_degree |-> max_sh_degree,
         packed |-> packed, sh |-> sh, lod_tree |-> <<>>,
         child_counts |-> <<>>, child_starts |-> <<>>,
         buffer |-> <<>>, buffer_base |-> 0, buffer_count |-> 0, buffer_dirty |-> FALSE,
         writes |-> 0, direct |-> [packed |-> packed, sh |-> sh],
         out |-> [get |-> "none"], finished |-> "no"]

\* an array with SH arrays of degree 1 and 2 and none of degree 3
PkInit ==
    /\ RadIdle
    /\ bh = BhIdle
    /\ ct = CtIdle
    /\ tv = TvIdle
    /\ ca = CaIdle
    /\ qz = QzIdle
    /\ ul = UlIdle
    /\ bl = BlIdle
    /\ lt = LtIdle
    /\ pk = PkInput(MaxPacked, MAX_SH_DEGREE - 1)

\* the value the next write stores
PkValue == pk.writes + 1

PkWritten(p, direct) ==
    [p EXCEPT !.writes = @ + 1, !.direct = direct, !.out = [get |-> "none"], !.finished = "no"]

\* set_center, set_opacity, set_rgb, set_rgba, set_scale, set_quat
PkSetColumns ==
    /\ pk.pc = "open"
    /\ pk.writes < MaxWrites
    /\ \E w \in Windows(pk.num_splats) :
       \E cols \in {{f} : f \in Fields} \cup {{"rgb", "opacity"}} :
          pk' = PkWritten(set_columns(pk, w[1], w[2], cols, PkValue),
                          direct_columns(pk.direct, w[1], w[2], cols, PkValue))
    /\ UNCHANGED besidesPk

\* set_sh1, set_sh2, set_sh3
PkSetSh ==
    /\ pk.pc = "open"
    /\ pk.writes < MaxWrites
    /\ \E w \in Windows(pk.num_splats) : \E d \in 1..MAX_SH_DEGREE :
          pk' = PkWritten(set_sh(pk, w[1], w[2], d, PkValue),
                          direct_sh(pk.direct, w[1], w[2], {d}, PkValue))
    /\ UNCHANGED besidesPk

\* the batches handed in: the five columns, alone, with the SH columns or
\* with child columns, and batches of one column or none
BatchShapes ==
    {s \in [cols : {Fields, {"center"}, {}},
            sh : BOOLEAN, child_count : BOOLEAN, child_start : BOOLEAN] :
        /\ s.cols # Fields => (~s.sh /\ ~s.child_count /\ ~s.child_start)
        /\ s.sh => ~s.child_count
        /\ s.child_start => s.child_count}

PkSetBatch ==
    /\ pk.pc = "open"
    /\ pk.writes < MaxWrites
    /\ \E w \in Windows(pk.num_splats) : \E shape \in BatchShapes :
          pk' = PkWritten(set_batch(pk, w[1], w[2], shape, PkValue),
                          direct_sh(direct_columns(pk.direct, w[1], w[2], shape.cols, PkValue),
                                    w[1], w[2],
                                    IF shape.sh THEN 1..MAX_SH_DEGREE ELSE {}, PkValue))
    /\ UNCHANGED besidesPk

\* get_center, get_opacity, get_rgb, get_scale, get_quat
PkGetColumn ==
    /\ pk.pc = "open"
    /\ \E w \in Windows(pk.num_splats) : \E f \in Fields :
          LET q == prepare_buffer(pk, w[1], w[2])
          IN  pk' = [q EXCEPT !.out = [get |-> f, base |-> w[1], count |-> w[2],
                                       values |-> [i \in 1..w[2] |-> q.buffer[i][f]]]]
    /\ UNCHANGED besidesPk

\* get_sh1, get_sh2, get_sh3 on an array that has the degree
PkGetSh ==
    /\ pk.pc = "open"
    /\ \E w \in Windows(pk.num_splats) : \E d \in 1..MAX_SH_DEGREE :
          LET q == invalidate_buffer(pk)
              r == ensure_buffer(q, w[2])
          IN  pk' = IF q.sh[d] = <<>> THEN q
                    ELSE [r EXCEPT !.buffer = [i \in 1..Len(@) |->
                                     IF 4 * (i - 1) < ShWords(d) * w[2] THEN Foreign ELSE @[i]],
                                   !.out = [get |-> "sh", degree |-> d,
                                            base |-> w[1], count |-> w[2],
                                            values |-> [i \in 1..w[2] |-> q.sh[d][w[1] + i]]]]
    /\ UNCHANGED besidesPk

\* get_batch asking for the five columns
PkGetBatch ==
    /\ pk.pc = "open"
    /\ \E w \in Windows(pk.num_splats) :
          LET q == prepare_buffer(pk, w[1], w[2])
          IN  pk' = [q EXCEPT !.out = [get |-> "batch", base |-> w[1], count |-> w[2],
                                       values |-> [i \in 1..w[2] |-> q.buffer[i]]]]
    /\ UNCHANGED besidesPk

\* get_packed_array
PkGetPackedArray ==
    /\ pk.pc = "open"
    /\ \E w \in Windows(pk.num_splats) :
          pk' = [pk EXCEPT !.out = [get |-> "packed_array", base |-> w[1], count |-> w[2],
                                    values |-> [i \in 1..w[2] |-> pk.packed[w[1] + i]]]]
    /\ UNCHANGED besidesPk

PkFinish ==
    /\ pk.pc = "open"
    /\ pk' = [packed_finish(pk) EXCEPT !.out = [get |-> "none"]]
    /\ UNCHANGED besidesPk

PkNext ==
    \/ PkSetColumns
    \/ PkSetSh
    \/ PkSetBatch
    \/ PkGetColumn
    \/ PkGetSh
    \/ PkGetBatch
    \/ PkGetPackedArray
    \/ PkFinish

SpecPacked == PkInit /\ [][PkNext]_vars

\* what the last getter has to give: the window of pk.direct
PkWanted ==
    IF pk.out.get = "sh"
    THEN [i \in 1..pk.out.count |-> pk.direct.sh[pk.out.degree][pk.out.base + i]]
    ELSE IF pk.out.get \in Fields
    THEN [i \in 1..pk.out.count |-> pk.direct.packed[pk.out.base + i][pk.out.get]]
    ELSE [i \in 1..pk.out.count |-> pk.direct.packed[pk.out.base + i]]

PkGot == pk.pc = "open" /\ pk.out.get # "none"

PkFinished == pk.pc = "open" /\ pk.finished = "ok"

\* C39: every get_* call gives the most recent write to each splat of its
\* window, and after finish() the packed array and the SH arrays are the
\* ones the same writes give when applied to the arrays directly.
C39_BufferCoherent ==
    /\ PkGot => pk.out.values = PkWanted
    /\ PkFinished => (pk.packed = pk.direct.packed /\ pk.sh = pk.direct.sh)

\* the same without get_packed_array, the getter that does not take the
\* buffer into account
C39_BufferCoherentThroughBuffer ==
    /\ (PkGot /\ pk.out.get # "packed_array") => pk.out.values = PkWanted
    /\ PkFinished => (pk.packed = pk.direct.packed /\ pk.sh = pk.direct.sh)

\* a window read back after a write to another window that overlaps it,
\* with the written window still in the buffer before
C39_Witness ==
    /\ PkGot
    /\ pk.out.get \in Fields
    /\ pk.writes = MaxWrites
    /\ pk.out.values = PkWanted
    /\ \E i \in 1..pk.out.count : \E j \in 1..pk.out.count :
          pk.out.values[i] # pk.out.values[j]


====
